---------------------------- MODULE Spec2Model ----------------------------
(***************************************************************************)
(* Adaptive budgeting engine of src/src/App.tsx: calculateMonthlyMetrics,  *)
(* calculateCategorySpending, calculateBudgetProgress and the "Smart       *)
(* Financial Insights" card, evaluated by one render pass of the budget    *)
(* tab while the wall clock advances.                                      *)
(*                                                                         *)
(* JavaScript numbers are modelled as exact rationals <<n, d>> in lowest   *)
(* terms with d > 0; d = 0 encodes the non-finite values a division by     *)
(* zero produces: <<1, 0>> is Infinity, <<-1, 0>> is -Infinity and         *)
(* <<0, 0>> is NaN.  Rounding of IEEE doubles is not modelled.             *)
(*                                                                         *)
(* An absent value (null, or a local that was never assigned) is the empty *)
(* sequence and a present value v is <<v>>.                                *)
(***************************************************************************)
EXTENDS Integers, Sequences, FiniteSets, TLC

(***************************************************************************)
(* Bounds of the model.                                                    *)
(***************************************************************************)
\* Longest transaction list the backend returns.
MaxTx == 4
\* Number of times the wall clock advances in one behaviour.
MaxTicks == 1

(***************************************************************************)
(* JavaScript number arithmetic.                                           *)
(***************************************************************************)
RECURSIVE GCD(_, _)
GCD(a, b) == IF b = 0 THEN a ELSE GCD(b, a % b)

AbsInt(n) == IF n < 0 THEN -n ELSE n

SignInt(n) == IF n < 0 THEN -1 ELSE IF n > 0 THEN 1 ELSE 0

Norm(n, d) ==
    IF d = 0 THEN <<SignInt(n), 0>>
    ELSE LET s == IF d < 0 THEN -1 ELSE 1
             g == GCD(AbsInt(n), AbsInt(d))
         IN  <<(s * n) \div g, (s * d) \div g>>

R(n) == <<n, 1>>

NaN == <<0, 0>>

IsFinite(a) == a[2] # 0

IsNaN(a) == a = NaN

NNeg(a) == <<-a[1], a[2]>>

NAdd(a, b) ==
    IF a[2] = 0 /\ b[2] = 0 THEN (IF a = b THEN a ELSE NaN)
    ELSE IF a[2] = 0 THEN a
    ELSE IF b[2] = 0 THEN b
    ELSE Norm(a[1] * b[2] + b[1] * a[2], a[2] * b[2])

NSub(a, b) == NAdd(a, NNeg(b))

NMul(a, b) == Norm(a[1] * b[1], a[2] * b[2])

NDiv(a, b) == Norm(a[1] * b[2], a[2] * b[1])

\* a < b; every comparison with NaN is false.
NLt(a, b) ==
    IF IsNaN(a) \/ IsNaN(b) THEN FALSE
    ELSE IF a[2] = 0 /\ b[2] = 0 THEN a[1] < b[1]
    ELSE a[1] * b[2] < b[1] * a[2]

NGt(a, b) == NLt(b, a)

NGe(a, b) == ~IsNaN(a) /\ ~IsNaN(b) /\ ~NLt(a, b)

NLe(a, b) == NGe(b, a)

\* Math.max, Math.min, Math.abs
NMax(a, b) == IF IsNaN(a) \/ IsNaN(b) THEN NaN ELSE IF NLt(a, b) THEN b ELSE a

NMin(a, b) == IF IsNaN(a) \/ IsNaN(b) THEN NaN ELSE IF NLt(b, a) THEN b ELSE a

NAbs(a) == <<AbsInt(a[1]), a[2]>>

\* A number in a boolean position (x || y): 0 and NaN are falsy.
Truthy(a) == ~IsNaN(a) /\ a # R(0)

\* arr.reduce((sum, x) => sum + f(x), 0)
RECURSIVE SumNum(_)
SumNum(s) == IF s = <<>> THEN R(0) ELSE NAdd(SumNum(SubSeq(s, 1, Len(s) - 1)), s[Len(s)])

(***************************************************************************)
(* Dates.  An instant is [y, m, d, t]: the local calendar day (m is the    *)
(* 0-based month of Date.getMonth) and the time of day, t = 0 for the      *)
(* first millisecond of the day and t = 1 for any later time of that day.  *)
(* A transaction's date is a calendar date (spec, section 3), read as the  *)
(* start of that day.                                                      *)
(***************************************************************************)
IsLeap(y) == (y % 4 = 0 /\ y % 100 # 0) \/ y % 400 = 0

\* new Date(year, month + 1, 0).getDate()
DaysInMonth(y, m) ==
    IF m = 1 THEN (IF IsLeap(y) THEN 29 ELSE 28)
    ELSE IF m \in {3, 5, 8, 10} THEN 30 ELSE 31

\* Date.getTime(): a key that orders instants as the epoch milliseconds do
GetTime(i) == ((i.y * 12 + i.m) * 32 + i.d) * 2 + i.t

\* The Date whose getTime() is k
DateOfTime(k) ==
    [y |-> ((k \div 2) \div 32) \div 12, m |-> ((k \div 2) \div 32) % 12,
     d |-> (k \div 2) % 32, t |-> k % 2]

\* new Date(t.date): a transaction's calendar date, at the start of that day
TxDate(tx) == [y |-> tx.date.y, m |-> tx.date.m, d |-> tx.date.d, t |-> 0]

\* threeMonthsAgo = new Date(now); setMonth(getMonth() - 3): the month index
\* wraps into the previous year and a day past the end of the target month
\* rolls over into the month after it
SetMonthBack3(now) ==
    LET mm == now.m - 3
        y1 == IF mm < 0 THEN now.y - 1 ELSE now.y
        m1 == IF mm < 0 THEN mm + 12 ELSE mm
        dim == DaysInMonth(y1, m1)
    IN  IF now.d <= dim THEN [y |-> y1, m |-> m1, d |-> now.d, t |-> now.t]
        ELSE [y |-> y1, m |-> m1 + 1, d |-> now.d - dim, t |-> now.t]

\* The wall clock a moment later: later the same day, or the start of the
\* next day
LaterInstant(i) ==
    IF i.t = 0 THEN [i EXCEPT !.t = 1]
    ELSE IF i.d < DaysInMonth(i.y, i.m) THEN [i EXCEPT !.d = i.d + 1, !.t = 0]
    ELSE IF i.m < 11 THEN [y |-> i.y, m |-> i.m + 1, d |-> 1, t |-> 0]
    ELSE [y |-> i.y + 1, m |-> 0, d |-> 1, t |-> 0]

\* The instants at which a behaviour may start
StartInstants ==
    {[y |-> 2023, m |-> 11, d |-> 15, t |-> 1], [y |-> 2023, m |-> 11, d |-> 31, t |-> 1]}

(***************************************************************************)
(* Transactions.  The backend holds a ledger of distinct transactions and  *)
(* answers with at most MaxTx of them, oldest first or newest first, or    *)
(* with the statement of an account on which the spending of one category  *)
(* fell while that of another rose.                                        *)
(***************************************************************************)
Day(y, m, d) == [y |-> y, m |-> m, d |-> d]

Tx(id, date, amount, category) ==
    [id |-> id, date |-> date, amount |-> amount, category |-> category]

Ledger ==
    << Tx(1, Day(2023, 6, 5), 600, <<"Shopping">>),
       Tx(2, Day(2023, 6, 20), 100, <<"Food and Drink", "Restaurants">>),
       Tx(3, Day(2023, 9, 1), 600, <<"Travel">>),
       Tx(4, Day(2023, 10, 30), 600, <<"Shopping">>),
       Tx(5, Day(2023, 11, 5), 200, <<"Travel">>),
       Tx(6, Day(2023, 11, 10), 900, <<"Food and Drink", "Groceries">>),
       Tx(7, Day(2023, 11, 10), 600, <<"Travel", "Airlines">>),
       Tx(8, Day(2023, 11, 10), -1000, <<"Transfer", "Payroll">>),
       Tx(9, Day(2023, 11, 20), 100, <<"Shopping">>),
       Tx(10, Day(2023, 11, 20), 0, <<"Entertainment">>),
       Tx(11, Day(2023, 11, 31), 100, <<>>),
       Tx(12, Day(2024, 0, 1), 300, <<"Entertainment">>) >>

RECURSIVE Ascending(_)
Ascending(ids) ==
    IF ids = {} THEN <<>>
    ELSE LET lo == CHOOSE i \in ids : \A j \in ids : i <= j
         IN  <<Ledger[lo]>> \o Ascending(ids \ {lo})

RECURSIVE Reverse(_)
Reverse(s) == IF s = <<>> THEN <<>> ELSE Append(Reverse(Tail(s)), Head(s))

Statement ==
    << Ledger[2],
       Ledger[3],
       Tx(13, Day(2023, 10, 30), 500, <<"Food and Drink">>),
       Ledger[5],
       Tx(14, Day(2023, 11, 8), 100, <<"Food and Drink", "Coffee">>) >>

Responses ==
    LET picks == {ids \in SUBSET (1..Len(Ledger)) : Cardinality(ids) <= MaxTx}
    IN  {Ascending(ids) : ids \in picks} \cup {Reverse(Ascending(ids)) : ids \in picks}
          \cup {Statement, Reverse(Statement)}

\* data.accounts of the response that carries the transactions `txs`: the
\* account the transactions are booked on
AccountsOf(txs) ==
    IF Len(txs) = 0 THEN <<>> ELSE << [account_id |-> "checking"] >>

\* Mutant of TransactionsAfterFilter: the filter removes in place what it drops.
TransactionsAfterFilter_inPlace(txs) ==
    LET IsExpense(t) == t.amount > 0
    IN  SelectSeq(txs, IsExpense)

\* The transactions array after transactions.filter(...): filter builds a new
\* array and leaves its receiver as it was
TransactionsAfterFilter(txs) == txs

(***************************************************************************)
(* Monthly Metrics Calculator.                                             *)
(***************************************************************************)
\* Mutant of InCurrentMonth: the month is not compared.
InCurrentMonth_sameYear(tx, now) == TxDate(tx).y = now.y

\* txDate.getMonth() === currentMonth && txDate.getFullYear() === currentYear
InCurrentMonth(tx, now) == TxDate(tx).m = now.m /\ TxDate(tx).y = now.y

Amounts(txs) == [i \in 1..Len(txs) |-> R(txs[i].amount)]

\* Mutant of MonthlySavings: the clamp at 0 is left out.
MonthlySavings_unclamped(income, expenses) == NSub(income, expenses)

\* monthlySavings
MonthlySavings(income, expenses) == NMax(R(0), NSub(income, expenses))

\* Mutant of PercentOfIncome: the division is not guarded by income > 0.
PercentOfIncome_unguarded(part, income) == NMul(NDiv(part, income), R(100))

\* expensePercentage, savingsPercentage: part / income * 100, 0 without income
PercentOfIncome(part, income) ==
    IF NGt(income, R(0)) THEN NMul(NDiv(part, income), R(100)) ELSE R(0)

\* Mutant of MonthlyMetricsOf: the transactions are not filtered by month.
MonthlyMetricsOf_allMonths(txs, now) ==
    LET IsIncome(t) == t.amount < 0
        IsExpense(t) == t.amount > 0
        monthlyIncome == NAbs(SumNum(Amounts(SelectSeq(txs, IsIncome))))
        monthlyExpenses == SumNum(Amounts(SelectSeq(txs, IsExpense)))
        monthlySavings == MonthlySavings(monthlyIncome, monthlyExpenses)
    IN  << [income |-> monthlyIncome,
            expenses |-> monthlyExpenses,
            savings |-> monthlySavings,
            expensePercentage |-> PercentOfIncome(monthlyExpenses, monthlyIncome),
            savingsPercentage |-> PercentOfIncome(monthlySavings, monthlyIncome)] >>

\* calculateMonthlyMetrics past its guard: the record built from the
\* transactions of the month of `now`
MonthlyMetricsOf(txs, now) ==
    LET IsCurrent(t) == InCurrentMonth(t, now)
        IsIncome(t) == t.amount < 0
        IsExpense(t) == t.amount > 0
        currentMonthTransactions == SelectSeq(txs, IsCurrent)
        monthlyIncome ==
            NAbs(SumNum(Amounts(SelectSeq(currentMonthTransactions, IsIncome))))
        monthlyExpenses ==
            SumNum(Amounts(SelectSeq(currentMonthTransactions, IsExpense)))
        monthlySavings == MonthlySavings(monthlyIncome, monthlyExpenses)
    IN  << [income |-> monthlyIncome,
            expenses |-> monthlyExpenses,
            savings |-> monthlySavings,
            expensePercentage |-> PercentOfIncome(monthlyExpenses, monthlyIncome),
            savingsPercentage |-> PercentOfIncome(monthlySavings, monthlyIncome)] >>

\* Mutant of calculateMonthlyMetrics: the guard on an empty list is left out.
calculateMonthlyMetrics_unguarded(txs, now) == MonthlyMetricsOf(txs, now)

calculateMonthlyMetrics(txs, now) ==
    IF Len(txs) = 0 THEN <<>> ELSE MonthlyMetricsOf(txs, now)

(***************************************************************************)
(* Category Spending Aggregator.                                           *)
(***************************************************************************)
\* Mutant of PrimaryCategory: the last element of the path is taken.
PrimaryCategory_leaf(tx) ==
    IF Len(tx.category) > 0 THEN tx.category[Len(tx.category)] ELSE "Uncategorized"

\* t.category && t.category.length > 0 ? t.category[0] : 'Uncategorized'
PrimaryCategory(tx) ==
    IF Len(tx.category) > 0 THEN tx.category[1] ELSE "Uncategorized"

\* The keys of the categories Map, in insertion order
RECURSIVE CategoryNames(_)
CategoryNames(txs) ==
    IF txs = <<>> THEN <<>>
    ELSE LET before == CategoryNames(SubSeq(txs, 1, Len(txs) - 1))
             name == PrimaryCategory(txs[Len(txs)])
         IN  IF \E i \in 1..Len(before) : before[i] = name THEN before
             ELSE Append(before, name)

\* (now.getMonth() - oldest.getMonth()) + 12 * (now.getFullYear() - oldest.getFullYear())
MonthsDiff(now, oldest) == (now.m - oldest.m) + 12 * (now.y - oldest.y)

\* Mutant of MonthsSpan: the floor of one month is left out.
MonthsSpan_unclamped(monthsDiff) == monthsDiff

\* monthsSpan
MonthsSpan(monthsDiff) == IF monthsDiff > 1 THEN monthsDiff ELSE 1

\* Mutant of RecentMonths: the recent total is taken as one month's spend.
RecentMonths_one(monthsSpan) == 1

\* recentMonths
RecentMonths(monthsSpan) == IF monthsSpan < 3 THEN monthsSpan ELSE 3

\* Mutant of RecentWeight: the cap at 0.7 is left out.
RecentWeight_uncapped(recentMonths) == NDiv(R(recentMonths), R(4))

\* recentWeight
RecentWeight(recentMonths) == NMin(<<7, 10>>, NDiv(R(recentMonths), R(4)))

\* historicalWeight
HistoricalWeight(recentWeight) == NSub(R(1), recentWeight)

\* Mutant of AdaptiveBudget: the two weights are swapped.
AdaptiveBudget_swapped(recentTrendSpend, recentWeight, historicalAvgSpend, historicalWeight) ==
    NAdd(NMul(recentTrendSpend, historicalWeight), NMul(historicalAvgSpend, recentWeight))

\* adaptiveBudget
AdaptiveBudget(recentTrendSpend, recentWeight, historicalAvgSpend, historicalWeight) ==
    NAdd(NMul(recentTrendSpend, recentWeight), NMul(historicalAvgSpend, historicalWeight))

\* Mutant of TrendPercentage: the change is taken relative to the recent spend.
TrendPercentage_ofRecent(recentTrendSpend, historicalAvgSpend) ==
    IF NGt(historicalAvgSpend, R(0))
      THEN NMul(NDiv(NSub(recentTrendSpend, historicalAvgSpend), recentTrendSpend), R(100))
      ELSE R(0)

\* trendPercentage
TrendPercentage(recentTrendSpend, historicalAvgSpend) ==
    IF NGt(historicalAvgSpend, R(0))
      THEN NMul(NDiv(NSub(recentTrendSpend, historicalAvgSpend), historicalAvgSpend), R(100))
      ELSE R(0)

\* new Date(Math.min(...txDates.map(d => d.getTime())))
OldestDate(txs) ==
    LET times == {GetTime(TxDate(txs[i])) : i \in 1..Len(txs)}
    IN  DateOfTime(CHOOSE k \in times : \A other \in times : k <= other)

\* The aggregate of one entry of the categories Map
CategoryAggregate(name, txs, now) ==
    LET IsCurrent(t) == InCurrentMonth(t, now)
        threeMonthsAgo == SetMonthBack3(now)
        IsRecent(t) == GetTime(TxDate(t)) >= GetTime(threeMonthsAgo)
        total == SumNum(Amounts(txs))
        currentMonthTotal == SumNum(Amounts(SelectSeq(txs, IsCurrent)))
        monthsSpan == MonthsSpan(MonthsDiff(now, OldestDate(txs)))
        historicalAvgSpend == NDiv(total, R(monthsSpan))
        recentTotal == SumNum(Amounts(SelectSeq(txs, IsRecent)))
        recentMonths == RecentMonths(monthsSpan)
        recentTrendSpend == NDiv(recentTotal, R(recentMonths))
        recentWeight == RecentWeight(recentMonths)
        historicalWeight == HistoricalWeight(recentWeight)
    IN  [name |-> name,
         totalSpent |-> total,
         currentMonthSpent |-> currentMonthTotal,
         transactionCount |-> Len(txs),
         historicalAvgSpend |-> historicalAvgSpend,
         recentTrendSpend |-> recentTrendSpend,
         adaptiveBudget |->
             AdaptiveBudget(recentTrendSpend, recentWeight, historicalAvgSpend, historicalWeight),
         trendPercentage |-> TrendPercentage(recentTrendSpend, historicalAvgSpend),
         percentage |-> R(0)]

\* Mutant of InsertByCurrentMonthSpent: the comparison is a - b, smallest first.
InsertByCurrentMonthSpent_ascending(sorted, c) ==
    LET larger == {i \in 1..Len(sorted) :
                      NGt(sorted[i].currentMonthSpent, c.currentMonthSpent)}
    IN  IF larger = {} THEN Append(sorted, c)
        ELSE LET at == CHOOSE i \in larger : \A j \in larger : i <= j
             IN  SubSeq(sorted, 1, at - 1) \o <<c>> \o SubSeq(sorted, at, Len(sorted))

\* .sort((a, b) => b.currentMonthSpent - a.currentMonthSpent): a stable sort
InsertByCurrentMonthSpent(sorted, c) ==
    LET smaller == {i \in 1..Len(sorted) :
                       NLt(sorted[i].currentMonthSpent, c.currentMonthSpent)}
    IN  IF smaller = {} THEN Append(sorted, c)
        ELSE LET at == CHOOSE i \in smaller : \A j \in smaller : i <= j
             IN  SubSeq(sorted, 1, at - 1) \o <<c>> \o SubSeq(sorted, at, Len(sorted))

RECURSIVE SortByCurrentMonthSpent(_)
SortByCurrentMonthSpent(cats) ==
    IF cats = <<>> THEN <<>>
    ELSE InsertByCurrentMonthSpent(
             SortByCurrentMonthSpent(SubSeq(cats, 1, Len(cats) - 1)), cats[Len(cats)])

\* Mutant of Percentage: the share is not scaled to a percentage.
Percentage_fraction(currentMonthSpent, totalSpending) ==
    IF NGt(totalSpending, R(0)) THEN NDiv(currentMonthSpent, totalSpending) ELSE R(0)

\* percentage
Percentage(currentMonthSpent, totalSpending) ==
    IF NGt(totalSpending, R(0))
      THEN NMul(NDiv(currentMonthSpent, totalSpending), R(100))
      ELSE R(0)

calculateCategorySpending(txs, now) ==
    IF Len(txs) = 0 THEN <<>>
    ELSE
      LET IsExpense(t) == t.amount > 0
          expenseTransactions == SelectSeq(txs, IsExpense)
          names == CategoryNames(expenseTransactions)
          TxsOf(name) ==
              LET InCategory(t) == PrimaryCategory(t) = name
              IN  SelectSeq(expenseTransactions, InCategory)
          categoryArray ==
              SortByCurrentMonthSpent(
                  [i \in 1..Len(names) |-> CategoryAggregate(names[i], TxsOf(names[i]), now)])
          totalSpending ==
              SumNum([i \in 1..Len(categoryArray) |-> categoryArray[i].currentMonthSpent])
      IN  [i \in 1..Len(categoryArray) |->
              [categoryArray[i] EXCEPT
                  !.percentage = Percentage(categoryArray[i].currentMonthSpent, totalSpending)]]

(***************************************************************************)
(* Budget Progress Evaluator.                                              *)
(***************************************************************************)
\* defaultBudgets
DefaultBudgets ==
    [c \in {"Food and Drink", "Travel", "Entertainment", "Shopping", "Transportation"} |->
        CASE c = "Food and Drink" -> 800
          [] c = "Travel" -> 500
          [] c = "Entertainment" -> 400
          [] c = "Shopping" -> 600
          [] c = "Transportation" -> 900]

\* Mutant of FallbackBudget: a name the table lacks gets a budget all the same.
FallbackBudget_anyName(name) ==
    IF name \in DOMAIN DefaultBudgets THEN R(DefaultBudgets[name]) ELSE R(500)

\* defaultBudgets[name] || 0
FallbackBudget(name) ==
    IF name \in DOMAIN DefaultBudgets THEN R(DefaultBudgets[name]) ELSE R(0)

\* adaptiveBudgets[name], after the forEach that fills the record
AdaptiveBudgetOf(categories, name) ==
    LET at == {i \in 1..Len(categories) : categories[i].name = name}
    IN  categories[CHOOSE i \in at : \A j \in at : i >= j].adaptiveBudget

\* Mutant of AdaptiveOrZero: the record of adaptive budgets is left unfilled.
AdaptiveOrZero_unfilled(categories, name) == R(0)

\* adaptiveBudgets[name] || 0
AdaptiveOrZero(categories, name) ==
    IF Truthy(AdaptiveBudgetOf(categories, name))
      THEN AdaptiveBudgetOf(categories, name) ELSE R(0)

\* Mutant of HasBudgetAndSpending: current-month spending is not required.
HasBudgetAndSpending_anySpending(categories, cat) ==
    NGt(IF Truthy(AdaptiveBudgetOf(categories, cat.name))
          THEN AdaptiveBudgetOf(categories, cat.name)
          ELSE FallbackBudget(cat.name), R(0))

\* The filter of the top categories:
\* (adaptiveBudgets[name] || defaultBudgets[name] || 0) > 0 && currentMonthSpent > 0
HasBudgetAndSpending(categories, cat) ==
    /\ NGt(IF Truthy(AdaptiveBudgetOf(categories, cat.name))
             THEN AdaptiveBudgetOf(categories, cat.name)
             ELSE FallbackBudget(cat.name), R(0))
    /\ NGt(cat.currentMonthSpent, R(0))

\* .slice(0, 3)
TopCategories(cats) == SubSeq(cats, 1, IF Len(cats) < 3 THEN Len(cats) ELSE 3)

\* Mutant of ExpectedSpendingPercentage: every month is taken to have 30 days.
ExpectedSpendingPercentage_of30(now) == NMul(NDiv(R(now.d), R(30)), R(100))

\* expectedSpendingPercentage
ExpectedSpendingPercentage(now) ==
    NMul(NDiv(R(now.d), R(DaysInMonth(now.y, now.m))), R(100))

\* Mutant of TrendDirection: the thresholds themselves count as a trend.
TrendDirection_inclusive(trendPercentage) ==
    IF NGe(trendPercentage, R(5)) THEN "increasing"
    ELSE IF NLe(trendPercentage, R(-5)) THEN "decreasing"
    ELSE "stable"

\* trendDirection
TrendDirection(trendPercentage) ==
    IF NGt(trendPercentage, R(5)) THEN "increasing"
    ELSE IF NLt(trendPercentage, R(-5)) THEN "decreasing"
    ELSE "stable"

\* Mutant of IsOverPace: any spending above the expected pace counts.
IsOverPace_atPace(spentPercentage, expectedSpendingPercentage) ==
    NGt(spentPercentage, expectedSpendingPercentage)

\* isOverPace: 10% over the expected pace
IsOverPace(spentPercentage, expectedSpendingPercentage) ==
    NGt(spentPercentage, NMul(expectedSpendingPercentage, <<11, 10>>))

\* The entry the final map builds for one category
ProgressEntry(categories, category, expectedSpendingPercentage) ==
    LET adaptiveBudget == AdaptiveOrZero(categories, category.name)
        fallbackBudget == FallbackBudget(category.name)
        budget == IF NGt(adaptiveBudget, R(0)) THEN adaptiveBudget ELSE fallbackBudget
        spentPercentage == NMul(NDiv(category.currentMonthSpent, budget), R(100))
    IN  [name |-> category.name,
         spent |-> category.currentMonthSpent,
         budget |-> budget,
         adaptiveBudget |-> adaptiveBudget,
         historicalAverage |-> category.historicalAvgSpend,
         spentPercentage |-> spentPercentage,
         adaptivePercentage |->
             IF NGt(adaptiveBudget, R(0))
               THEN NMul(NDiv(category.currentMonthSpent, adaptiveBudget), R(100))
               ELSE R(0),
         expectedSpendingPercentage |-> expectedSpendingPercentage,
         isOverPace |-> IsOverPace(spentPercentage, expectedSpendingPercentage),
         isUnderPace |-> NLt(spentPercentage, NMul(expectedSpendingPercentage, <<9, 10>>)),
         trendDirection |-> TrendDirection(category.trendPercentage),
         trendPercentage |-> category.trendPercentage]

\* calculateBudgetProgress from the clock reading `now` it took on entry and the
\* aggregates `categories` its call of calculateCategorySpending returned
BudgetProgressOf(categories, now) ==
    LET Keep(cat) == HasBudgetAndSpending(categories, cat)
        top == TopCategories(SelectSeq(categories, Keep))
    IN  [i \in 1..Len(top) |-> ProgressEntry(categories, top[i], ExpectedSpendingPercentage(now))]

(***************************************************************************)
(* Insight Generator: the "Smart Financial Insights" card.  A card is a    *)
(* record of its kind and of the values its text is formatted from.        *)
(***************************************************************************)
\* Mutant of ProjectedOverage: the extrapolation is not scaled by 100.
ProjectedOverage_unscaled(entry) ==
    NSub(NDiv(entry.spent, entry.expectedSpendingPercentage), entry.adaptiveBudget)

\* Projected month-end overage of the over-pace warning
ProjectedOverage(entry) ==
    NSub(NMul(NDiv(entry.spent, entry.expectedSpendingPercentage), R(100)),
         entry.adaptiveBudget)

\* 100 - spentPercentage / expectedSpendingPercentage * 100
BelowPace(entry) ==
    NSub(R(100), NMul(NDiv(entry.spentPercentage, entry.expectedSpendingPercentage), R(100)))

\* The "Adaptive Budget Insight" text: the first branch whose condition holds
Recommendation(metrics, overBudget, changing, underBudget) ==
    IF Len(overBudget) > 0
      THEN [kind |-> "recommendation", rule |-> "overBudget", name |-> overBudget[1].name]
    ELSE IF Len(changing) > 0 /\ changing[1].trendDirection = "increasing"
      THEN [kind |-> "recommendation", rule |-> "increasing", name |-> changing[1].name]
    ELSE IF Len(changing) > 0 /\ changing[1].trendDirection = "decreasing"
      THEN [kind |-> "recommendation", rule |-> "decreasing", name |-> changing[1].name]
    ELSE IF NLt(metrics.savingsPercentage, R(15))
      THEN [kind |-> "recommendation", rule |-> "lowSavings", name |-> ""]
    ELSE IF Len(underBudget) > 0
      THEN [kind |-> "recommendation", rule |-> "underBudget", name |-> underBudget[1].name]
    ELSE [kind |-> "recommendation", rule |-> "wellAligned", name |-> ""]

\* Mutant of FutureProjection: the projected savings are clamped at 0, as the
\* monthly savings are.
FutureProjection_clamped(metrics, budgetProgress) ==
    LET totalAdaptiveBudget ==
            SumNum([i \in 1..Len(budgetProgress) |-> budgetProgress[i].adaptiveBudget])
        projectedAnnualSpend == NMul(totalAdaptiveBudget, R(12))
        projectedAnnualIncome == NMul(metrics.income, R(12))
        projectedAnnualSavings == NMax(R(0), NSub(projectedAnnualIncome, projectedAnnualSpend))
    IN  [kind |-> "projection",
         projectedAnnualSpend |-> projectedAnnualSpend,
         projectedAnnualIncome |-> projectedAnnualIncome,
         projectedAnnualSavings |-> projectedAnnualSavings,
         projectedSavingsRate |->
             NMul(NDiv(projectedAnnualSavings, projectedAnnualIncome), R(100))]

\* The "Future Projection" text
FutureProjection(metrics, budgetProgress) ==
    LET totalAdaptiveBudget ==
            SumNum([i \in 1..Len(budgetProgress) |-> budgetProgress[i].adaptiveBudget])
        projectedAnnualSpend == NMul(totalAdaptiveBudget, R(12))
        projectedAnnualIncome == NMul(metrics.income, R(12))
        projectedAnnualSavings == NSub(projectedAnnualIncome, projectedAnnualSpend)
    IN  [kind |-> "projection",
         projectedAnnualSpend |-> projectedAnnualSpend,
         projectedAnnualIncome |-> projectedAnnualIncome,
         projectedAnnualSavings |-> projectedAnnualSavings,
         projectedSavingsRate |->
             NMul(NDiv(projectedAnnualSavings, projectedAnnualIncome), R(100))]

\* Mutant of GoodSavingsRate: a rate of exactly 20 does not count.
GoodSavingsRate_above(metrics) == NGt(metrics.savingsPercentage, R(20))

\* goodSavingsRate
GoodSavingsRate(metrics) == NGe(metrics.savingsPercentage, R(20))

InsightCards(monthlyMetrics, budgetProgress) ==
    IF monthlyMetrics = <<>> \/ Len(budgetProgress) = 0 THEN <<>>
    ELSE
      LET metrics == monthlyMetrics[1]
          IsOver(e) == e.isOverPace
          IsUnder(e) == e.isUnderPace
          IsChanging(e) == NGt(NAbs(e.trendPercentage), R(15))
          overBudgetCategories == SelectSeq(budgetProgress, IsOver)
          underBudgetCategories == SelectSeq(budgetProgress, IsUnder)
          changingCategories == SelectSeq(budgetProgress, IsChanging)
          goodSavingsRate == GoodSavingsRate(metrics)
          warning ==
              IF Len(overBudgetCategories) > 0
                THEN << [kind |-> "overPace",
                         name |-> overBudgetCategories[1].name,
                         overage |-> ProjectedOverage(overBudgetCategories[1]),
                         trendingUp |-> overBudgetCategories[1].trendDirection = "increasing"] >>
                ELSE <<>>
          trendAlert ==
              IF /\ Len(changingCategories) > 0
                 /\ \/ Len(overBudgetCategories) = 0
                    \/ changingCategories[1].name # overBudgetCategories[1].name
                THEN << [kind |-> "trendChange",
                         name |-> changingCategories[1].name,
                         direction |-> changingCategories[1].trendDirection,
                         change |-> NAbs(changingCategories[1].trendPercentage),
                         adaptiveBudget |-> changingCategories[1].adaptiveBudget] >>
                ELSE <<>>
          savings ==
              IF goodSavingsRate
                THEN << [kind |-> "savingsOnTrack",
                         savings |-> metrics.savings,
                         savingsPercentage |-> metrics.savingsPercentage,
                         under |-> IF Len(underBudgetCategories) > 0
                                     THEN <<underBudgetCategories[1].name>> ELSE <<>>] >>
                ELSE <<>>
      IN  warning \o trendAlert \o savings
            \o << Recommendation(metrics, overBudgetCategories, changingCategories,
                                 underBudgetCategories) >>
            \o << FutureProjection(metrics, budgetProgress) >>

(***************************************************************************)
(* One render pass of the budget tab.  The "Spending by Category" card     *)
(* calls calculateCategorySpending; the insights card calls                *)
(* calculateMonthlyMetrics and then calculateBudgetProgress, which reads   *)
(* the clock and calls calculateCategorySpending, which reads it again.    *)
(* Every function reads the wall clock for itself (new Date()), and the    *)
(* clock runs on between the reads.  The functions are modelled for every  *)
(* transaction list, the empty one included.                               *)
(***************************************************************************)
(***************************************************************************)
(* handlePlaidSuccess: responses of the two requests and what the handler  *)
(* makes of them.  A response either rejects the fetch with an error or    *)
(* resolves with ok and a body; a body that json() cannot parse is <<>>.   *)
(***************************************************************************)
\* user.uid of the signed-in user
Uid == "uid-1"

\* A parsed JSON body; a field it does not carry is <<>>
Body(details, accessToken, txs, accs) ==
    [details |-> details, accessToken |-> accessToken, transactions |-> txs, accounts |-> accs]

\* The body of a successful /exchange-token response
TokenBody == Body(<<>>, <<"access-1">>, <<>>, <<>>)

\* The body of a successful /transactions response carrying `txs`
DataBody(txs) == Body(<<>>, <<>>, <<txs>>, <<AccountsOf(txs)>>)

\* The bodies of error responses: with details, with empty details, without
ErrorBodies ==
    { Body(<<"INVALID_PUBLIC_TOKEN">>, <<>>, <<>>, <<>>),
      Body(<<"">>, <<>>, <<>>, <<>>),
      Body(<<>>, <<>>, <<>>, <<>>) }

\* An exception value: whether it is an Error, and its message
Exception(isError, message) == [isError |-> isError, message |-> message]

\* fetch rejected: the network failed
Rejected(err) == [kind |-> "rejected", ok |-> FALSE, body |-> <<>>, err |-> <<err>>]

\* fetch resolved with a response
Resolved(ok, body) == [kind |-> "resolved", ok |-> ok, body |-> body, err |-> <<>>]

\* Responses that are not successful ones: a rejected fetch, a non-OK status
\* with a body or with an unparsable one, an OK status with an unparsable body
FailedResponses ==
    {Rejected(Exception(TRUE, "Failed to fetch"))}
        \cup {Resolved(FALSE, <<b>>) : b \in ErrorBodies}
        \cup {Resolved(FALSE, <<>>), Resolved(TRUE, <<>>)}

\* What the /exchange-token request can come back with
ExchangeResponses == FailedResponses \cup {Resolved(TRUE, <<TokenBody>>)}

\* The transaction lists a /transactions response can carry
PlaidPayloads == {<<>>, SubSeq(Ledger, 1, 3), Statement}

\* What the /transactions request can come back with
TransactionsResponses ==
    FailedResponses \cup {Resolved(TRUE, <<DataBody(txs)>>) : txs \in PlaidPayloads}

\* errorData.details || fallback
DetailsOr(details, fallback) ==
    IF details # <<>> /\ details[1] # "" THEN details[1] ELSE fallback

\* What the try block throws on a response, if anything: the rejection of the
\* fetch, the SyntaxError of json() on an unparsable body, or the Error built
\* from a non-OK response
ThrownOn(response, fallback) ==
    IF response.kind = "rejected" THEN response.err
    ELSE IF response.body = <<>> THEN <<Exception(TRUE, "Unexpected end of JSON input")>>
    ELSE IF ~response.ok THEN <<Exception(TRUE, DetailsOr(response.body[1].details, fallback))>>
    ELSE <<>>

\* err instanceof Error ? err.message : 'Failed to connect bank account'
CaughtMessage(err) ==
    IF err.isError THEN err.message ELSE "Failed to connect bank account"

\* Mutant of ErrorAfterCatch: the catch block logs the error and sets nothing.
ErrorAfterCatch_cleared(err) == <<>>

\* The error state after the catch block
ErrorAfterCatch(err) == <<CaughtMessage(err)>>

\* The handler's position, the user it was called with and its two responses
PlaidFlow(position, calledBy, exchangeResponse, transactionsResponse) ==
    [pc |-> position, user |-> calledBy, exchangeResponse |-> exchangeResponse,
     transactionsResponse |-> transactionsResponse]

VARIABLES
    transactions,      \* the component's transactions state
    accounts,          \* the component's accounts state
    user,              \* the component's user state: the signed-in user, if any
    isLoading,         \* the component's isLoading state
    error,             \* the component's error state: a message, if any
    plaidFlow,         \* handlePlaidSuccess: its position, captured user and responses
    clock,             \* the wall clock: what new Date() returns
    ticks,             \* how often the clock has advanced
    pc,                \* position of the render pass
    categorySpending,  \* result of the "Spending by Category" card's call
    nowSpending,       \* `now` read by that call, if it read one
    monthlyMetrics,    \* insights card: result of calculateMonthlyMetrics
    nowMetrics,        \* `now` read by calculateMonthlyMetrics, if it read one
    nowProgress,       \* `now` read by calculateBudgetProgress, if it read one
    nowCategories,     \* `now` read by the nested calculateCategorySpending
    categories,        \* calculateBudgetProgress's local `categories`
    budgetProgress,    \* insights card: result of calculateBudgetProgress
    insights           \* the cards of the insights card, in order

vars == <<transactions, accounts, user, isLoading, error, plaidFlow, clock, ticks, pc, categorySpending, nowSpending, monthlyMetrics,
          nowMetrics, nowProgress, nowCategories, categories, budgetProgress, insights>>

Init ==
    /\ transactions \in Responses
    /\ accounts = AccountsOf(transactions)
    /\ user = <<Uid>>
    /\ isLoading = FALSE
    /\ error = <<>>
    /\ plaidFlow = PlaidFlow("ended", <<Uid>>, <<Resolved(TRUE, <<TokenBody>>)>>,
                              <<Resolved(TRUE, <<DataBody(transactions)>>)>>)
    /\ clock \in StartInstants
    /\ ticks = 0
    /\ pc = "idle"
    /\ categorySpending = <<>>
    /\ nowSpending = <<>>
    /\ monthlyMetrics = <<>>
    /\ nowMetrics = <<>>
    /\ nowProgress = <<>>
    /\ nowCategories = <<>>
    /\ categories = <<>>
    /\ budgetProgress = <<>>
    /\ insights = <<>>

\* Time passes.
Tick ==
    /\ ticks < MaxTicks
    /\ clock' = LaterInstant(clock)
    /\ ticks' = ticks + 1
    /\ UNCHANGED <<transactions, accounts, user, isLoading, error, plaidFlow, pc, categorySpending, nowSpending, monthlyMetrics,
                   nowMetrics, nowProgress, nowCategories, categories, budgetProgress,
                   insights>>

\* The "Spending by Category" card starts a render pass.
SpendingByCategoryCard ==
    /\ pc \in {"idle", "done"}
    /\ categorySpending' = calculateCategorySpending(transactions, clock)
    /\ nowSpending' = IF Len(transactions) = 0 THEN <<>> ELSE <<clock>>
    /\ monthlyMetrics' = <<>>
    /\ nowMetrics' = <<>>
    /\ nowProgress' = <<>>
    /\ nowCategories' = <<>>
    /\ categories' = <<>>
    /\ budgetProgress' = <<>>
    /\ insights' = <<>>
    /\ pc' = "insights"
    /\ transactions' = TransactionsAfterFilter(transactions)
    /\ UNCHANGED <<accounts, user, isLoading, error, plaidFlow, clock, ticks>>

\* Insights card: const monthlyMetrics = calculateMonthlyMetrics()
InsightsMonthlyMetrics ==
    /\ pc = "insights"
    /\ monthlyMetrics' = calculateMonthlyMetrics(transactions, clock)
    /\ nowMetrics' = IF Len(transactions) = 0 THEN <<>> ELSE <<clock>>
    /\ pc' = "progress"
    /\ transactions' = TransactionsAfterFilter(transactions)
    /\ UNCHANGED <<accounts, user, isLoading, error, plaidFlow, clock, ticks, categorySpending, nowSpending, nowProgress,
                   nowCategories, categories, budgetProgress, insights>>

\* Insights card: calculateBudgetProgress() up to its call of
\* calculateCategorySpending; with no transactions it returns [] at once and
\* the card renders nothing.
BudgetProgressBegin ==
    /\ pc = "progress"
    /\ IF Len(transactions) = 0
         THEN /\ budgetProgress' = <<>>
              /\ insights' = InsightCards(monthlyMetrics, <<>>)
              /\ nowProgress' = <<>>
              /\ pc' = "done"
         ELSE /\ nowProgress' = <<clock>>
              /\ pc' = "aggregate"
              /\ UNCHANGED <<budgetProgress, insights>>
    /\ UNCHANGED <<transactions, accounts, user, isLoading, error, plaidFlow, clock, ticks, categorySpending, nowSpending,
                   monthlyMetrics, nowMetrics, nowCategories, categories>>

\* Insights card: the rest of calculateBudgetProgress, from its call of
\* calculateCategorySpending on, and the cards built from the two results.
BudgetProgressEnd ==
    /\ pc = "aggregate"
    /\ nowCategories' = <<clock>>
    /\ categories' = calculateCategorySpending(transactions, clock)
    /\ budgetProgress' = BudgetProgressOf(categories', nowProgress[1])
    /\ insights' = InsightCards(monthlyMetrics, budgetProgress')
    /\ pc' = "done"
    /\ transactions' = TransactionsAfterFilter(transactions)
    /\ UNCHANGED <<accounts, user, isLoading, error, plaidFlow, clock, ticks, categorySpending, nowSpending,
                   monthlyMetrics, nowMetrics, nowProgress>>

Next ==
    \/ Tick
    \/ SpendingByCategoryCard
    \/ InsightsMonthlyMetrics
    \/ BudgetProgressBegin
    \/ BudgetProgressEnd

Spec == Init /\ [][Next]_vars

(***************************************************************************)
(* The Budget Progress Evaluator by itself: lines 244-300 of               *)
(* calculateBudgetProgress as a function of the clock reading and of the   *)
(* CategorySpending list `categories`.  The list is any value of that type *)
(* in the order the aggregator leaves it in: an adaptiveBudget of 0 among  *)
(* them, which the aggregator computes when its averages underflow to 0.   *)
(***************************************************************************)
MaxCats == 4

\* A CategorySpending value
Aggregate(name, currentMonthSpent, historicalAvgSpend, recentTrendSpend, adaptiveBudget) ==
    [name |-> name,
     totalSpent |-> R(currentMonthSpent),
     currentMonthSpent |-> R(currentMonthSpent),
     transactionCount |-> 1,
     historicalAvgSpend |-> R(historicalAvgSpend),
     recentTrendSpend |-> R(recentTrendSpend),
     adaptiveBudget |-> adaptiveBudget,
     trendPercentage |-> TrendPercentage(R(recentTrendSpend), R(historicalAvgSpend)),
     percentage |-> R(0)]

\* CategorySpending values by currentMonthSpent, largest first
Shelf ==
    << Aggregate("Transportation", 1100, 1000, 1000, R(1000)),
       Aggregate("Food and Drink", 900, 1000, 1000, R(1000)),
       Aggregate("Rent", 700, 0, 0, R(0)),
       Aggregate("Travel", 600, 0, 0, R(0)),
       Aggregate("Shopping", 100, 0, 0, R(0)),
       Aggregate("Uncategorized", 100, 100, 105, <<207, 2>>),
       Aggregate("Healthcare", 80, 100, 200, R(170)),
       Aggregate("Groceries", 60, 200, 100, R(130)),
       Aggregate("Entertainment", 50, 400, 380, R(386)),
       Aggregate("Utilities", 0, 200, 0, R(60)) >>

\* The lists calculateCategorySpending may hand over: names distinct,
\* currentMonthSpent non-increasing, percentage filled in
CategoryLists ==
    LET picks == {ids \in SUBSET (1..Len(Shelf)) : Cardinality(ids) <= MaxCats}
        RECURSIVE Pick(_)
        Pick(ids) ==
            IF ids = {} THEN <<>>
            ELSE LET lo == CHOOSE i \in ids : \A j \in ids : i <= j
                 IN  <<Shelf[lo]>> \o Pick(ids \ {lo})
        Filled(cats) ==
            LET totalSpending ==
                    SumNum([i \in 1..Len(cats) |-> cats[i].currentMonthSpent])
            IN  [i \in 1..Len(cats) |->
                    [cats[i] EXCEPT
                        !.percentage = Percentage(cats[i].currentMonthSpent, totalSpending)]]
    IN  {Filled(Pick(ids)) : ids \in picks}

InitEvaluator ==
    /\ transactions = <<>>
    /\ accounts = <<>>
    /\ user = <<Uid>>
    /\ isLoading = FALSE
    /\ error = <<>>
    /\ plaidFlow = PlaidFlow("idle", <<>>, <<>>, <<>>)
    /\ clock \in StartInstants
    /\ ticks = 0
    /\ pc = "categories"
    /\ categorySpending = <<>>
    /\ nowSpending = <<>>
    /\ monthlyMetrics = <<>>
    /\ nowMetrics = <<>>
    /\ nowProgress = <<>>
    /\ nowCategories = <<>>
    /\ categories \in CategoryLists
    /\ budgetProgress = <<>>
    /\ insights = <<>>

\* calculateBudgetProgress on the categories at hand: the clock reading on
\* entry, then the filter, the slice and the map
EvaluateCategories ==
    /\ pc = "categories"
    /\ nowProgress' = <<clock>>
    /\ budgetProgress' = BudgetProgressOf(categories, clock)
    /\ pc' = "evaluated"
    /\ UNCHANGED <<transactions, accounts, user, isLoading, error, plaidFlow, clock, ticks, categorySpending, nowSpending,
                   monthlyMetrics, nowMetrics, nowCategories, categories, insights>>

NextEvaluator ==
    \/ Tick
    \/ EvaluateCategories

EvaluatorSpec == InitEvaluator /\ [][NextEvaluator]_vars

(***************************************************************************)
(* The Plaid flow: handlePlaidSuccess from the constructed component, with *)
(* the auth listener signing the user in and out.  One flow runs at a time.*)
(***************************************************************************)
InitPlaid ==
    /\ transactions = <<>>
    /\ accounts = <<>>
    /\ user = <<>>
    /\ isLoading = FALSE
    /\ error = <<>>
    /\ plaidFlow = PlaidFlow("idle", <<>>, <<>>, <<>>)
    /\ clock \in StartInstants
    /\ ticks = 0
    /\ pc = "idle"
    /\ categorySpending = <<>>
    /\ nowSpending = <<>>
    /\ monthlyMetrics = <<>>
    /\ nowMetrics = <<>>
    /\ nowProgress = <<>>
    /\ nowCategories = <<>>
    /\ categories = <<>>
    /\ budgetProgress = <<>>
    /\ insights = <<>>

\* onAuthStateChanged: setUser(currentUser) or setUser(null)
AuthStateChanged ==
    /\ \E currentUser \in {<<>>, <<Uid>>} :
          /\ currentUser # user
          /\ user' = currentUser
    /\ UNCHANGED <<transactions, accounts, isLoading, error, plaidFlow, clock, ticks, pc,
                   categorySpending, nowSpending, monthlyMetrics, nowMetrics, nowProgress,
                   nowCategories, categories, budgetProgress, insights>>

\* handlePlaidSuccess up to its first await: the early return without a user,
\* else setIsLoading(true), setError(null) and the /exchange-token request
HandlePlaidSuccess ==
    /\ plaidFlow.pc \in {"idle", "returned", "ended"}
    /\ IF user = <<>>
         THEN /\ plaidFlow' = PlaidFlow("returned", <<>>, <<>>, <<>>)
              /\ UNCHANGED <<isLoading, error>>
         ELSE /\ isLoading' = TRUE
              /\ error' = <<>>
              /\ plaidFlow' = PlaidFlow("exchange", user, <<>>, <<>>)
    /\ UNCHANGED <<transactions, accounts, user, clock, ticks, pc,
                   categorySpending, nowSpending, monthlyMetrics, nowMetrics, nowProgress,
                   nowCategories, categories, budgetProgress, insights>>

\* The /exchange-token request comes back: on a failure the catch and finally
\* blocks run, else the /transactions request is sent
ExchangeTokenResponds ==
    /\ plaidFlow.pc = "exchange"
    /\ \E response \in ExchangeResponses :
          LET thrown == ThrownOn(response, "Failed to exchange token")
          IN  IF thrown # <<>>
                THEN /\ error' = ErrorAfterCatch(thrown[1])
                     /\ isLoading' = FALSE
                     /\ plaidFlow' = PlaidFlow("ended", plaidFlow.user, <<response>>, <<>>)
                ELSE /\ plaidFlow' = PlaidFlow("transactions", plaidFlow.user, <<response>>, <<>>)
                     /\ UNCHANGED <<isLoading, error>>
    /\ UNCHANGED <<transactions, accounts, user, clock, ticks, pc,
                   categorySpending, nowSpending, monthlyMetrics, nowMetrics, nowProgress,
                   nowCategories, categories, budgetProgress, insights>>

\* The /transactions request comes back: on a failure the catch block runs,
\* else setTransactions and setAccounts; the finally block in both cases
TransactionsRespond ==
    /\ plaidFlow.pc = "transactions"
    /\ \E response \in TransactionsResponses :
          LET thrown == ThrownOn(response, "Failed to fetch transactions")
          IN  /\ IF thrown # <<>>
                   THEN /\ error' = ErrorAfterCatch(thrown[1])
                        /\ UNCHANGED <<transactions, accounts>>
                   ELSE /\ transactions' = response.body[1].transactions[1]
                        /\ accounts' = response.body[1].accounts[1]
                        /\ UNCHANGED error
              /\ isLoading' = FALSE
              /\ plaidFlow' = PlaidFlow("ended", plaidFlow.user, plaidFlow.exchangeResponse,
                                        <<response>>)
    /\ UNCHANGED <<user, clock, ticks, pc,
                   categorySpending, nowSpending, monthlyMetrics, nowMetrics, nowProgress,
                   nowCategories, categories, budgetProgress, insights>>

NextPlaid ==
    \/ AuthStateChanged
    \/ HandlePlaidSuccess
    \/ ExchangeTokenResponds
    \/ TransactionsRespond

PlaidSpec == InitPlaid /\ [][NextPlaid]_vars

(***************************************************************************)
(* Properties.  The aggregates of a state are recomputed here from the     *)
(* transactions by sets, not by the engine's own helpers.                  *)
(***************************************************************************)
\* The results of calculateCategorySpending the state holds, each with the
\* clock reading it was computed from
AggregateRuns ==
    (IF nowSpending = <<>> THEN {} ELSE {<<categorySpending, nowSpending[1]>>})
      \cup (IF nowCategories = <<>> THEN {} ELSE {<<categories, nowCategories[1]>>})

\* The expense transactions of a primary category
ExpensesIn(name) ==
    {i \in 1..Len(transactions) :
        /\ transactions[i].amount > 0
        /\ name = (IF transactions[i].category = <<>> THEN "Uncategorized"
                   ELSE transactions[i].category[1])}

MonthIndex(date) == 12 * date.y + date.m

\* Calendar months from the oldest expense of a category to `now`
MonthDistance(name, now) ==
    LET months == {MonthIndex(transactions[i].date) : i \in ExpensesIn(name)}
    IN  MonthIndex(now) - (CHOOSE k \in months : \A other \in months : k <= other)

ClampedSpan(name, now) ==
    IF MonthDistance(name, now) < 1 THEN 1 ELSE MonthDistance(name, now)

\* C1: whenever calculateMonthlyMetrics returned a record, its savings are
\* income - expenses when that is positive and 0 otherwise, and never negative.
Thm_C1 ==
    monthlyMetrics # <<>> =>
        LET m == monthlyMetrics[1]
        IN  /\ m.savings = (IF NLt(m.expenses, m.income)
                              THEN NSub(m.income, m.expenses) ELSE R(0))
            /\ NGe(m.savings, R(0))

\* C1's case: a month whose expenses exceed its income, with savings 0.
Wit_C1 ==
    /\ monthlyMetrics # <<>>
    /\ NGt(monthlyMetrics[1].income, R(0))
    /\ NGt(monthlyMetrics[1].expenses, monthlyMetrics[1].income)
    /\ monthlyMetrics[1].savings = R(0)

\* C2: with an empty transaction list every stage returns its empty result:
\* no metrics, no category aggregates, no budget progress and no insight card.
Thm_C2 ==
    transactions = <<>> =>
        /\ categorySpending = <<>>
        /\ monthlyMetrics = <<>>
        /\ budgetProgress = <<>>
        /\ insights = <<>>

\* C2's case: a whole render pass over an empty transaction list.
Wit_C2 == transactions = <<>> /\ pc = "done"

\* C3: every category's historicalAvgSpend is totalSpent divided by the
\* calendar-month distance from its oldest expense to `now`, clamped to at
\* least 1; a single 100 expense one calendar month ago averages 100.
Thm_C3 ==
    \A run \in AggregateRuns :
        \A i \in 1..Len(run[1]) :
            LET c == run[1][i]
                span == ClampedSpan(c.name, run[2])
            IN  /\ span >= 1
                /\ IsFinite(c.historicalAvgSpend)
                /\ NMul(c.historicalAvgSpend, R(span)) = c.totalSpent
                /\ (/\ Len(transactions) = 1
                    /\ transactions[1].amount = 100
                    /\ MonthDistance(c.name, run[2]) = 1)
                      => c.historicalAvgSpend = R(100)

\* C3's case: one aggregate holds a category whose oldest expense is in the
\* current month and one whose oldest expense is dated after `now`.
Wit_C3 ==
    \E run \in AggregateRuns :
        /\ \E i \in 1..Len(run[1]) :
              /\ MonthDistance(run[1][i].name, run[2]) = 0
              /\ run[1][i].historicalAvgSpend = run[1][i].totalSpent
        /\ \E i \in 1..Len(run[1]) :
              /\ MonthDistance(run[1][i].name, run[2]) < 0
              /\ run[1][i].historicalAvgSpend = run[1][i].totalSpent

\* The single 100 expense of one calendar month ago is reached as well.
Reach_C3_OneMonthAgo ==
    \E run \in AggregateRuns :
        /\ Len(transactions) = 1
        /\ Len(run[1]) = 1
        /\ transactions[1].amount = 100
        /\ MonthDistance(run[1][1].name, run[2]) = 1
        /\ run[1][1].currentMonthSpent = R(0)

\* C4: for every category the weight of the recent trend lies in [0.25, 0.7],
\* the two weights sum to 1, the historical weight lies in [0.3, 0.75]; the
\* recent weight is 0.25 at a span of 1 month and 0.7 from 3 months on.
Thm_C4 ==
    \A run \in AggregateRuns :
        \A i \in 1..Len(run[1]) :
            LET span == ClampedSpan(run[1][i].name, run[2])
                recentWeight == RecentWeight(RecentMonths(span))
                historicalWeight == HistoricalWeight(recentWeight)
            IN  /\ NLe(<<1, 4>>, recentWeight) /\ NLe(recentWeight, <<7, 10>>)
                /\ NAdd(recentWeight, historicalWeight) = R(1)
                /\ NLe(<<3, 10>>, historicalWeight) /\ NLe(historicalWeight, <<3, 4>>)
                /\ span = 1 => recentWeight = <<1, 4>>
                /\ span >= 3 => recentWeight = <<7, 10>>

\* C4's case: one aggregate holds a category with a span of 1 month, one
\* with 2 months and one with 3 months or more.
Wit_C4 ==
    \E run \in AggregateRuns :
        \A want \in 1..3 :
            \E i \in 1..Len(run[1]) :
                RecentMonths(ClampedSpan(run[1][i].name, run[2])) = want

\* The weight the blend gives the recent trend at a span of months
BlendWeight(span) == IF span >= 3 THEN <<7, 10>> ELSE <<span, 4>>

\* C5: every category's adaptiveBudget is recentTrendSpend * recentWeight +
\* historicalAvgSpend * (1 - recentWeight); a category averaging 200 with a
\* recent trend of 300 over 3 or more months has an adaptiveBudget of 270.
Thm_C5 ==
    \A run \in AggregateRuns :
        \A i \in 1..Len(run[1]) :
            LET c == run[1][i]
                span == ClampedSpan(c.name, run[2])
                w == Norm(BlendWeight(span)[1], BlendWeight(span)[2])
            IN  /\ c.adaptiveBudget =
                      NAdd(NMul(c.recentTrendSpend, w),
                           NMul(c.historicalAvgSpend, NSub(R(1), w)))
                /\ (/\ c.historicalAvgSpend = R(200)
                    /\ c.recentTrendSpend = R(300)
                    /\ span >= 3) => c.adaptiveBudget = R(270)

\* C5's case: a transaction list produces the category averaging 200 with a
\* recent trend of 300 over at least 3 months.
Wit_C5 ==
    \E run \in AggregateRuns :
        \E i \in 1..Len(run[1]) :
            /\ run[1][i].historicalAvgSpend = R(200)
            /\ run[1][i].recentTrendSpend = R(300)
            /\ ClampedSpan(run[1][i].name, run[2]) >= 3
            /\ run[1][i].adaptiveBudget = R(270)

\* Sum of one numeric field over the categories of an aggregate
TotalCurrentMonthSpent(cats) ==
    SumNum([i \in 1..Len(cats) |-> cats[i].currentMonthSpent])

TotalPercentage(cats) == SumNum([i \in 1..Len(cats) |-> cats[i].percentage])

\* C6: when the categories' current-month spending sums to more than 0 their
\* percentages sum to 100 and each is its share of that sum; when it sums to
\* 0 every percentage is 0.
Thm_C6 ==
    \A run \in AggregateRuns :
        LET cats == run[1]
            total == TotalCurrentMonthSpent(cats)
        IN  IF NGt(total, R(0))
              THEN /\ TotalPercentage(cats) = R(100)
                   /\ \A i \in 1..Len(cats) :
                         NMul(cats[i].percentage, total) =
                             NMul(cats[i].currentMonthSpent, R(100))
              ELSE \A i \in 1..Len(cats) : cats[i].percentage = R(0)

\* C6's case: three categories spent unequal amounts this month and a fourth
\* spent nothing.
Wit_C6 ==
    \E run \in AggregateRuns :
        /\ Len(run[1]) = 4
        /\ NGt(run[1][1].percentage, run[1][2].percentage)
        /\ NGt(run[1][2].percentage, run[1][3].percentage)
        /\ NGt(run[1][3].percentage, R(0))
        /\ run[1][4].percentage = R(0)
        /\ TotalPercentage(run[1]) = R(100)

\* The other case is reached as well: categories, none of which spent anything
\* this month.
Reach_C6_NothingSpent ==
    \E run \in AggregateRuns :
        /\ Len(run[1]) >= 2
        /\ TotalCurrentMonthSpent(run[1]) = R(0)
        /\ TotalPercentage(run[1]) = R(0)

\* The categories of calculateBudgetProgress's aggregate that have a budget
\* and spent something this month
EligibleCategories ==
    {i \in 1..Len(categories) :
        /\ NGt(IF NGt(categories[i].adaptiveBudget, R(0))
                 THEN categories[i].adaptiveBudget
                 ELSE FallbackBudget(categories[i].name), R(0))
        /\ NGt(categories[i].currentMonthSpent, R(0))}

\* Position of an eligible category among the eligible ones
EligibleRank(i) == Cardinality({j \in EligibleCategories : j < i}) + 1

\* C7: calculateBudgetProgress returns at most 3 entries: the first 3 (or
\* fewer) eligible categories in the aggregate's order.  No entry has spent
\* nothing, no eligible category left out spent more than a returned one, and
\* a category that spent nothing this month is not returned.
Thm_C7 ==
    /\ Len(budgetProgress) <= 3
    /\ Len(budgetProgress) =
          (IF Cardinality(EligibleCategories) < 3
             THEN Cardinality(EligibleCategories) ELSE 3)
    /\ \A i \in EligibleCategories :
          IF EligibleRank(i) <= 3
            THEN /\ budgetProgress[EligibleRank(i)].name = categories[i].name
                 /\ budgetProgress[EligibleRank(i)].spent = categories[i].currentMonthSpent
            ELSE \A k \in 1..Len(budgetProgress) :
                    NLe(categories[i].currentMonthSpent, budgetProgress[k].spent)
    /\ \A k \in 1..Len(budgetProgress) : NGt(budgetProgress[k].spent, R(0))
    /\ \A i \in 1..Len(categories) :
          categories[i].currentMonthSpent = R(0) =>
              \A k \in 1..Len(budgetProgress) : budgetProgress[k].name # categories[i].name

\* C7's case: four categories are eligible and three are returned.
Wit_C7 ==
    /\ pc = "done"
    /\ Cardinality(EligibleCategories) = 4
    /\ Len(budgetProgress) = 3

\* The category whose only expense, of 600, was one month ago is reached too:
\* it has a budget of 600, spent nothing this month and is not returned.
Reach_C7_NothingSpent ==
    /\ pc = "done"
    /\ Len(categories) = 1
    /\ categories[1].name = "Shopping"
    /\ categories[1].historicalAvgSpend = R(600)
    /\ categories[1].currentMonthSpent = R(0)
    /\ budgetProgress = <<>>

\* The numbers of a finished render pass
MetricsNumbers ==
    IF monthlyMetrics = <<>> THEN {}
    ELSE LET m == monthlyMetrics[1]
         IN  {m.income, m.expenses, m.savings, m.expensePercentage, m.savingsPercentage}

AggregateNumbers(cats) ==
    UNION {{cats[i].totalSpent, cats[i].currentMonthSpent, cats[i].historicalAvgSpend,
            cats[i].recentTrendSpend, cats[i].adaptiveBudget, cats[i].trendPercentage,
            cats[i].percentage} : i \in 1..Len(cats)}

ProgressNumbers ==
    UNION {{budgetProgress[i].spent, budgetProgress[i].budget,
            budgetProgress[i].adaptiveBudget, budgetProgress[i].historicalAverage,
            budgetProgress[i].spentPercentage, budgetProgress[i].adaptivePercentage,
            budgetProgress[i].expectedSpendingPercentage,
            budgetProgress[i].trendPercentage} : i \in 1..Len(budgetProgress)}

InsightNumbers ==
    UNION {CASE insights[i].kind = "overPace" -> {insights[i].overage}
             [] insights[i].kind = "trendChange" ->
                    {insights[i].change, insights[i].adaptiveBudget}
             [] insights[i].kind = "savingsOnTrack" ->
                    {insights[i].savings, insights[i].savingsPercentage}
             [] insights[i].kind = "projection" ->
                    {insights[i].projectedAnnualSpend, insights[i].projectedAnnualIncome,
                     insights[i].projectedAnnualSavings, insights[i].projectedSavingsRate}
             [] OTHER -> {} : i \in 1..Len(insights)}

\* C8: no computation of the engine yields NaN or an infinity: every number
\* of every result is finite, and the annualized savings rate is 0 when the
\* month has no income.
Cex_C8 ==
    /\ \A x \in MetricsNumbers \cup AggregateNumbers(categorySpending)
                  \cup AggregateNumbers(categories) \cup ProgressNumbers
                  \cup InsightNumbers : IsFinite(x)
    /\ \A i \in 1..Len(insights) :
          (insights[i].kind = "projection" /\ insights[i].projectedAnnualIncome = R(0))
              => insights[i].projectedSavingsRate = R(0)

\* What does hold: every number of the three calculators' results is finite.
Reach_C8_CalculatorsFinite ==
    \A x \in MetricsNumbers \cup AggregateNumbers(categorySpending)
                \cup AggregateNumbers(categories) \cup ProgressNumbers : IsFinite(x)

\* C10: one evaluation of the pipeline uses a single clock reading: the
\* instants read by calculateMonthlyMetrics, by calculateBudgetProgress and by
\* the calculateCategorySpending it calls are the same.
Cex_C10 ==
    (pc = "done" /\ nowMetrics # <<>>) =>
        /\ nowMetrics = nowProgress
        /\ nowProgress = nowCategories

\* C10, on what the readings are used for: the month and year of the metrics
\* and of the aggregates are those of the budget progress's day of the month.
Cex_C10_SameMonth ==
    (pc = "done" /\ nowMetrics # <<>>) =>
        /\ nowMetrics[1].m = nowProgress[1].m /\ nowMetrics[1].y = nowProgress[1].y
        /\ nowCategories[1].m = nowProgress[1].m /\ nowCategories[1].y = nowProgress[1].y


\* The fallback table as the claim C11 lists it
FallbackTable ==
    { <<"Food and Drink", 800>>, <<"Travel", 500>>, <<"Entertainment", 400>>,
      <<"Shopping", 600>>, <<"Transportation", 900>> }

\* C11: a category whose adaptiveBudget is 0 and whose name is not in the
\* fallback table never appears in BudgetProgress; every returned entry has
\* as budget the category's adaptiveBudget when that is above 0 and the
\* fallback table's value for its name otherwise; adaptivePercentage is 0
\* when adaptiveBudget is 0.
Thm_C11 ==
    pc = "evaluated" =>
        /\ \A i \in 1..Len(categories) :
              ( /\ categories[i].adaptiveBudget = <<0, 1>>
                /\ \A row \in FallbackTable : row[1] # categories[i].name )
              => \A k \in 1..Len(budgetProgress) :
                    budgetProgress[k].name # categories[i].name
        /\ \A k \in 1..Len(budgetProgress) :
              \E i \in 1..Len(categories) :
                 /\ categories[i].name = budgetProgress[k].name
                 /\ budgetProgress[k].adaptiveBudget = categories[i].adaptiveBudget
                 /\ IF NGt(categories[i].adaptiveBudget, <<0, 1>>)
                      THEN budgetProgress[k].budget = categories[i].adaptiveBudget
                      ELSE /\ \E row \in FallbackTable :
                                 /\ row[1] = budgetProgress[k].name
                                 /\ budgetProgress[k].budget = <<row[2], 1>>
                           /\ budgetProgress[k].adaptivePercentage = <<0, 1>>

\* An evaluation that drops a category with neither budget, gives another
\* its fallback budget and a third its adaptive budget
Wit_C11 ==
    /\ pc = "evaluated"
    /\ \E i \in 1..Len(categories) :
          /\ categories[i].adaptiveBudget = <<0, 1>>
          /\ NGt(categories[i].currentMonthSpent, <<0, 1>>)
          /\ \A row \in FallbackTable : row[1] # categories[i].name
    /\ \E k \in 1..Len(budgetProgress) :
          /\ budgetProgress[k].adaptiveBudget = <<0, 1>>
          /\ budgetProgress[k].budget = <<500, 1>>
    /\ \E k \in 1..Len(budgetProgress) :
          /\ NGt(budgetProgress[k].adaptiveBudget, <<0, 1>>)
          /\ budgetProgress[k].budget = budgetProgress[k].adaptiveBudget

\* C12: the engine never mutates its inputs: no step of a render pass, and so
\* no sequence of calls of the engine's functions, changes the transactions
\* or the accounts sequence.
Thm_C12 == [][transactions' = transactions /\ accounts' = accounts]_vars

\* Every function of the engine has run over transactions of which its
\* filters drop some, with an account at hand
Wit_C12 ==
    /\ pc = "done"
    /\ accounts # <<>>
    /\ \E i \in 1..Len(transactions) : transactions[i].amount <= 0
    /\ \E i \in 1..Len(transactions) : transactions[i].amount > 0
    /\ Len(categorySpending) > 0
    /\ monthlyMetrics # <<>>
    /\ Len(budgetProgress) > 0
    /\ Len(insights) > 0

\* How many of the insight cards are of the given kind
CardsOfKind(kind) == Cardinality({i \in 1..Len(insights) : insights[i].kind = kind})

\* C13: the insight stage produces between 0 and 5 cards: none when the
\* monthly metrics are absent or the budget progress is empty; otherwise at
\* most one over-pace warning, at most one trend-change alert, the
\* savings-on-track card exactly when savingsPercentage >= 20, and always one
\* recommendation and one projection.
Thm_C13 ==
    pc = "done" =>
        IF monthlyMetrics = <<>> \/ Len(budgetProgress) = 0
          THEN Len(insights) = 0
          ELSE /\ Len(insights) <= 5
               /\ \A i \in 1..Len(insights) :
                     insights[i].kind \in {"overPace", "trendChange", "savingsOnTrack",
                                           "recommendation", "projection"}
               /\ CardsOfKind("overPace") <= 1
               /\ CardsOfKind("trendChange") <= 1
               /\ CardsOfKind("savingsOnTrack") =
                     (IF NGe(monthlyMetrics[1].savingsPercentage, <<20, 1>>) THEN 1 ELSE 0)
               /\ CardsOfKind("recommendation") = 1
               /\ CardsOfKind("projection") = 1

\* All five cards at once
Wit_C13 ==
    /\ pc = "done"
    /\ Len(insights) = 5
    /\ CardsOfKind("overPace") = 1
    /\ CardsOfKind("trendChange") = 1
    /\ CardsOfKind("savingsOnTrack") = 1

\* Metrics but no eligible category: no card
Reach_C13_NoProgress ==
    pc = "done" /\ monthlyMetrics # <<>> /\ Len(budgetProgress) = 0 /\ Len(insights) = 0

\* The two cards that are always there, alone
Reach_C13_TwoCards ==
    pc = "done" /\ Len(insights) = 2

\* A savings rate of exactly 20 brings the savings card
Reach_C13_SavingsAtTwenty ==
    /\ pc = "done"
    /\ monthlyMetrics # <<>>
    /\ monthlyMetrics[1].savingsPercentage = <<20, 1>>
    /\ CardsOfKind("savingsOnTrack") = 1

\* The sum of the amounts of the transactions at the given positions
RECURSIVE AmountSum(_)
AmountSum(ids) ==
    IF ids = {} THEN 0
    ELSE LET i == CHOOSE j \in ids : TRUE
         IN  transactions[i].amount + AmountSum(ids \ {i})

\* The positions of the transactions dated in the month and year of `now`
InMonthOf(now) ==
    {i \in 1..Len(transactions) :
        transactions[i].date.m = now.m /\ transactions[i].date.y = now.y}

\* C14: for a non-empty transaction list calculateMonthlyMetrics always
\* returns a record; its income is the absolute value of the sum of the
\* amounts below 0 and its expenses the sum of the amounts above 0, both over
\* the transactions dated in the month and year of `now` only; zero amounts
\* and transactions of other months or years add to neither.
Thm_C14 ==
    (pc \in {"progress", "aggregate", "done"} /\ Len(transactions) > 0) =>
        /\ monthlyMetrics # <<>>
        /\ nowMetrics # <<>>
        /\ LET month == InMonthOf(nowMetrics[1])
               incomeSum == AmountSum({i \in month : transactions[i].amount < 0})
               expenseSum == AmountSum({i \in month : transactions[i].amount > 0})
           IN  /\ monthlyMetrics[1].income = <<-incomeSum, 1>>
               /\ monthlyMetrics[1].expenses = <<expenseSum, 1>>

\* Metrics of a month with income, expenses and a zero amount, from a list
\* that also holds an expense of another month
Wit_C14 ==
    /\ pc = "done"
    /\ nowMetrics # <<>>
    /\ LET month == InMonthOf(nowMetrics[1])
       IN  /\ \E i \in month : transactions[i].amount < 0
           /\ \E i \in month : transactions[i].amount > 0
           /\ \E i \in month : transactions[i].amount = 0
           /\ \E i \in 1..Len(transactions) : i \notin month /\ transactions[i].amount > 0
    /\ NGt(monthlyMetrics[1].income, <<0, 1>>)
    /\ NGt(monthlyMetrics[1].expenses, <<0, 1>>)

\* A non-empty list with nothing in the month of `now`: a record of zeros
Reach_C14_EmptyMonth ==
    /\ pc = "done"
    /\ Len(transactions) > 0
    /\ nowMetrics # <<>>
    /\ InMonthOf(nowMetrics[1]) = {}
    /\ monthlyMetrics # <<>>
    /\ monthlyMetrics[1].income = <<0, 1>>
    /\ monthlyMetrics[1].expenses = <<0, 1>>

\* The number `pct` is part / whole * 100, for whole numbers part and whole > 0
IsPercentOf(pct, part, whole) ==
    pct[2] > 0 /\ pct[1] * whole = 100 * part * pct[2]

\* C15: with income > 0, expensePercentage = expenses / income * 100 and
\* savingsPercentage = savings / income * 100; with income 0 both are 0;
\* income 1000 and expenses 600 give savings 400, expensePercentage 60 and
\* savingsPercentage 40; savingsPercentage always lies in [0, 100].
Thm_C15 ==
    monthlyMetrics # <<>> =>
        LET metrics == monthlyMetrics[1]
        IN  /\ metrics.income[2] = 1 /\ metrics.expenses[2] = 1 /\ metrics.savings[2] = 1
            /\ IF metrics.income[1] > 0
                 THEN /\ IsPercentOf(metrics.expensePercentage,
                                     metrics.expenses[1], metrics.income[1])
                      /\ IsPercentOf(metrics.savingsPercentage,
                                     metrics.savings[1], metrics.income[1])
                 ELSE /\ metrics.expensePercentage = <<0, 1>>
                      /\ metrics.savingsPercentage = <<0, 1>>
            /\ (metrics.income = <<1000, 1>> /\ metrics.expenses = <<600, 1>>)
                  => /\ metrics.savings = <<400, 1>>
                     /\ metrics.expensePercentage = <<60, 1>>
                     /\ metrics.savingsPercentage = <<40, 1>>
            /\ metrics.savingsPercentage[2] > 0
            /\ 0 <= metrics.savingsPercentage[1]
            /\ metrics.savingsPercentage[1] <= 100 * metrics.savingsPercentage[2]

\* The example of the claim: income 1000, expenses 600
Wit_C15 ==
    /\ monthlyMetrics # <<>>
    /\ monthlyMetrics[1].income = <<1000, 1>>
    /\ monthlyMetrics[1].expenses = <<600, 1>>
    /\ monthlyMetrics[1].savingsPercentage = <<40, 1>>

\* Expenses without income: both percentages 0
Reach_C15_NoIncome ==
    /\ monthlyMetrics # <<>>
    /\ monthlyMetrics[1].income = <<0, 1>>
    /\ NGt(monthlyMetrics[1].expenses, <<0, 1>>)
    /\ monthlyMetrics[1].expensePercentage = <<0, 1>>

\* Expenses above the income: expensePercentage above 100, savingsPercentage 0
Reach_C15_Overspent ==
    /\ monthlyMetrics # <<>>
    /\ NGt(monthlyMetrics[1].income, <<0, 1>>)
    /\ NGt(monthlyMetrics[1].expensePercentage, <<100, 1>>)
    /\ monthlyMetrics[1].savingsPercentage = <<0, 1>>

\* Income without expenses: savingsPercentage 100
Reach_C15_AllSaved ==
    /\ monthlyMetrics # <<>>
    /\ monthlyMetrics[1].savingsPercentage = <<100, 1>>

\* C16: calculateCategorySpending partitions exactly the transactions with
\* amount > 0 by primary category (the first element of the category path,
\* or "Uncategorized"): the names of the result are pairwise distinct, every
\* expense is counted in exactly one category, totalSpent is the sum and
\* transactionCount the number of the category's expenses, and income and
\* zero-amount transactions create no category.
Thm_C16 ==
    \A run \in AggregateRuns :
        LET cats == run[1]
            expenses == {i \in 1..Len(transactions) : transactions[i].amount > 0}
        IN  /\ \A i, j \in 1..Len(cats) : cats[i].name = cats[j].name => i = j
            /\ \A e \in expenses :
                  Cardinality({i \in 1..Len(cats) : e \in ExpensesIn(cats[i].name)}) = 1
            /\ \A i \in 1..Len(cats) :
                  /\ ExpensesIn(cats[i].name) # {}
                  /\ cats[i].totalSpent = <<AmountSum(ExpensesIn(cats[i].name)), 1>>
                  /\ cats[i].transactionCount = Cardinality(ExpensesIn(cats[i].name))

\* Aggregates with a category of two expenses and the "Uncategorized" one,
\* from a list whose income carries a category of its own
Wit_C16 ==
    \E run \in AggregateRuns :
        /\ \E i \in 1..Len(run[1]) : run[1][i].transactionCount >= 2
        /\ \E i \in 1..Len(run[1]) : run[1][i].name = "Uncategorized"
        /\ \E t \in 1..Len(transactions) :
              /\ transactions[t].amount < 0
              /\ transactions[t].category # <<>>
              /\ \A i \in 1..Len(run[1]) : run[1][i].name # transactions[t].category[1]

\* A zero amount in a category that has no expense: the category is absent
Reach_C16_ZeroAmount ==
    \E run \in AggregateRuns :
        /\ Len(run[1]) > 0
        /\ \E t \in 1..Len(transactions) :
              /\ transactions[t].amount = 0
              /\ \A i \in 1..Len(run[1]) : run[1][i].name # transactions[t].category[1]

LastDayOfMonth(y, m) ==
    CASE m \in {0, 2, 4, 6, 7, 9, 11} -> 31
      [] m \in {3, 5, 8, 10} -> 30
      [] m = 1 -> IF y % 400 = 0 \/ (y % 4 = 0 /\ y % 100 # 0) THEN 29 ELSE 28

\* The instant three calendar months before `now`: the same day of the month
\* and time of day three months earlier, or the last day of that month when
\* it has no such day
ThreeCalendarMonthsBefore(now) ==
    LET index == MonthIndex(now) - 3
        y == index \div 12
        m == index % 12
        last == LastDayOfMonth(y, m)
    IN  [y |-> y, m |-> m, d |-> IF now.d <= last THEN now.d ELSE last, t |-> now.t]

\* A transaction date, read as the start of its day, is not before the instant
NotBefore(date, instant) ==
    \/ MonthIndex(date) > MonthIndex(instant)
    \/ MonthIndex(date) = MonthIndex(instant) /\ date.d > instant.d
    \/ MonthIndex(date) = MonthIndex(instant) /\ date.d = instant.d /\ instant.t = 0

\* recentTrendSpend of the category as the claim C18 states it, checked
\* against the number `recent`
IsRecentTrendSpend(recent, name, now) ==
    LET window == {i \in ExpensesIn(name) :
                      NotBefore(transactions[i].date, ThreeCalendarMonthsBefore(now))}
        months == IF ClampedSpan(name, now) < 3 THEN ClampedSpan(name, now) ELSE 3
    IN  recent[2] > 0 /\ recent[1] * months = AmountSum(window) * recent[2]

\* C18: recentTrendSpend = (the sum of the category's expense amounts dated
\* on or after 'now minus 3 calendar months') / min(3, monthsSpan); older
\* transactions add nothing to it and future-dated ones are included.
Cex_C18 ==
    \A run \in AggregateRuns :
        \A i \in 1..Len(run[1]) :
            IsRecentTrendSpend(run[1][i].recentTrendSpend, run[1][i].name, run[2])

\* The statement of C18 on the days that exist three months earlier: it holds
Aux_C18_DayExists ==
    \A run \in AggregateRuns :
        ThreeCalendarMonthsBefore(run[2]).d = run[2].d =>
            \A i \in 1..Len(run[1]) :
                IsRecentTrendSpend(run[1][i].recentTrendSpend, run[1][i].name, run[2])

\* A category with an expense older than the window, one inside it and a
\* future-dated one, on a day that exists three months earlier
Reach_C18_Window ==
    \E run \in AggregateRuns :
        /\ ThreeCalendarMonthsBefore(run[2]).d = run[2].d
        /\ \E i \in 1..Len(run[1]) :
              /\ \E t \in ExpensesIn(run[1][i].name) :
                    ~NotBefore(transactions[t].date, ThreeCalendarMonthsBefore(run[2]))
              /\ \E t \in ExpensesIn(run[1][i].name) :
                    /\ NotBefore(transactions[t].date, ThreeCalendarMonthsBefore(run[2]))
                    /\ MonthIndex(transactions[t].date) <= MonthIndex(run[2])
        /\ \E i \in 1..Len(run[1]) :
              \E t \in ExpensesIn(run[1][i].name) :
                  /\ MonthIndex(transactions[t].date) > MonthIndex(run[2])
                  /\ NGt(run[1][i].recentTrendSpend, <<0, 1>>)

\* C19: for every category, trendPercentage =
\* (recentTrendSpend - historicalAvgSpend) / historicalAvgSpend * 100 when
\* historicalAvgSpend > 0, and 0 otherwise; historicalAvgSpend 200 and
\* recentTrendSpend 300 give 50.
Thm_C19 ==
    \A run \in AggregateRuns :
        \A i \in 1..Len(run[1]) :
            LET hist == run[1][i].historicalAvgSpend
                recent == run[1][i].recentTrendSpend
                trend == run[1][i].trendPercentage
            IN  /\ hist[2] > 0 /\ recent[2] > 0 /\ trend[2] > 0
                /\ IF hist[1] > 0
                     THEN trend[1] * recent[2] * hist[1] =
                              100 * trend[2] * (recent[1] * hist[2] - hist[1] * recent[2])
                     ELSE trend = <<0, 1>>
                /\ (hist = <<200, 1>> /\ recent = <<300, 1>>) => trend = <<50, 1>>

\* The example of the claim: historicalAvgSpend 200, recentTrendSpend 300
Wit_C19 ==
    \E run \in AggregateRuns :
        \E i \in 1..Len(run[1]) :
            /\ run[1][i].historicalAvgSpend = <<200, 1>>
            /\ run[1][i].recentTrendSpend = <<300, 1>>
            /\ run[1][i].trendPercentage = <<50, 1>>

\* A falling trend, and one of -100 (nothing recent)
Reach_C19_Falling ==
    \E run \in AggregateRuns :
        /\ \E i \in 1..Len(run[1]) : run[1][i].trendPercentage = <<-100, 1>>
        /\ \E i \in 1..Len(run[1]) :
              /\ NLt(run[1][i].trendPercentage, <<0, 1>>)
              /\ NGt(run[1][i].trendPercentage, <<-100, 1>>)

\* No aggregate of the render pass has a historicalAvgSpend of 0: each
\* category holds an expense
Aux_C19_HistoricalPositive ==
    \A run \in AggregateRuns :
        \A i \in 1..Len(run[1]) : NGt(run[1][i].historicalAvgSpend, <<0, 1>>)

\* The number p is a / b * 100, for numbers a and b with b > 0
IsPercentOfNumber(p, a, b) ==
    p[2] > 0 /\ p[1] * a[2] * b[1] = 100 * a[1] * b[2] * p[2]

\* spentPercentage against expectedSpendingPercentage times tenths / 10, both
\* finite: -1, 0 or 1 as it is below, equal or above
AgainstPace(spentPercentage, expected, tenths) ==
    LET left == spentPercentage[1] * expected[2] * 10
        right == expected[1] * tenths * spentPercentage[2]
    IN  IF left < right THEN -1 ELSE IF left = right THEN 0 ELSE 1

\* C20: for every BudgetProgress entry, spentPercentage = spent / budget * 100
\* and expectedSpendingPercentage = dayOfMonth(now) / daysInMonth(now) * 100;
\* isOverPace holds exactly when spentPercentage > expected * 1.1 and
\* isUnderPace exactly when spentPercentage < expected * 0.9; within the band
\* [0.9, 1.1] * expected, bounds included, both are false; the two are never
\* true together.
Thm_C20 ==
    pc = "evaluated" =>
        \A k \in 1..Len(budgetProgress) :
            LET entry == budgetProgress[k]
                now == nowProgress[1]
                expected == entry.expectedSpendingPercentage
            IN  /\ entry.budget[2] > 0 /\ entry.budget[1] > 0 /\ entry.spent[2] > 0
                /\ IsPercentOfNumber(entry.spentPercentage, entry.spent, entry.budget)
                /\ IsPercentOfNumber(expected, <<now.d, 1>>,
                                     <<LastDayOfMonth(now.y, now.m), 1>>)
                /\ entry.isOverPace = (AgainstPace(entry.spentPercentage, expected, 11) = 1)
                /\ entry.isUnderPace = (AgainstPace(entry.spentPercentage, expected, 9) = -1)
                /\ ( /\ AgainstPace(entry.spentPercentage, expected, 9) >= 0
                     /\ AgainstPace(entry.spentPercentage, expected, 11) <= 0 )
                      => (~entry.isOverPace /\ ~entry.isUnderPace)
                /\ ~(entry.isOverPace /\ entry.isUnderPace)

\* One evaluation with an entry on the upper bound of the band, one on the
\* lower bound and one above the band
Wit_C20 ==
    /\ pc = "evaluated"
    /\ \E k \in 1..Len(budgetProgress) :
          /\ AgainstPace(budgetProgress[k].spentPercentage,
                         budgetProgress[k].expectedSpendingPercentage, 11) = 0
          /\ ~budgetProgress[k].isOverPace /\ ~budgetProgress[k].isUnderPace
    /\ \E k \in 1..Len(budgetProgress) :
          /\ AgainstPace(budgetProgress[k].spentPercentage,
                         budgetProgress[k].expectedSpendingPercentage, 9) = 0
          /\ ~budgetProgress[k].isOverPace /\ ~budgetProgress[k].isUnderPace
    /\ \E k \in 1..Len(budgetProgress) :
          budgetProgress[k].isOverPace /\ ~budgetProgress[k].isUnderPace

\* An entry below the band, on a day in the middle of the month
Reach_C20_UnderPace ==
    /\ pc = "evaluated"
    /\ nowProgress[1].d < LastDayOfMonth(nowProgress[1].y, nowProgress[1].m)
    /\ nowProgress[1].d > 1
    /\ \E k \in 1..Len(budgetProgress) :
          budgetProgress[k].isUnderPace /\ ~budgetProgress[k].isOverPace

\* The same statement on the entries of the render pass
Aux_C20_RenderPass ==
    (pc = "done" /\ nowProgress # <<>>) =>
        \A k \in 1..Len(budgetProgress) :
            LET entry == budgetProgress[k]
                expected == entry.expectedSpendingPercentage
            IN  /\ IsPercentOfNumber(entry.spentPercentage, entry.spent, entry.budget)
                /\ IsPercentOfNumber(expected, <<nowProgress[1].d, 1>>,
                       <<LastDayOfMonth(nowProgress[1].y, nowProgress[1].m), 1>>)
                /\ entry.isOverPace = (AgainstPace(entry.spentPercentage, expected, 11) = 1)
                /\ entry.isUnderPace = (AgainstPace(entry.spentPercentage, expected, 9) = -1)

\* C21: for every BudgetProgress entry, trendDirection is "increasing"
\* exactly when trendPercentage > 5, "decreasing" exactly when
\* trendPercentage < -5 and "stable" otherwise: 5 and -5 are stable.
Thm_C21 ==
    pc = "evaluated" =>
        \A k \in 1..Len(budgetProgress) :
            LET trend == budgetProgress[k].trendPercentage
                direction == budgetProgress[k].trendDirection
            IN  /\ trend[2] > 0
                /\ direction \in {"increasing", "decreasing", "stable"}
                /\ (direction = "increasing") = (trend[1] > 5 * trend[2])
                /\ (direction = "decreasing") = (trend[1] < -5 * trend[2])
                /\ (trend = <<5, 1>> \/ trend = <<-5, 1>>) => direction = "stable"

\* Entries with a trend of exactly 5 and of exactly -5, both stable, next to
\* an increasing one
Wit_C21 ==
    /\ pc = "evaluated"
    /\ \E k \in 1..Len(budgetProgress) :
          /\ budgetProgress[k].trendPercentage = <<5, 1>>
          /\ budgetProgress[k].trendDirection = "stable"
    /\ \E k \in 1..Len(budgetProgress) :
          /\ budgetProgress[k].trendPercentage = <<-5, 1>>
          /\ budgetProgress[k].trendDirection = "stable"
    /\ \E k \in 1..Len(budgetProgress) : budgetProgress[k].trendDirection = "increasing"

\* A decreasing entry
Reach_C21_Decreasing ==
    /\ pc = "evaluated"
    /\ \E k \in 1..Len(budgetProgress) :
          /\ budgetProgress[k].trendDirection = "decreasing"
          /\ NLt(budgetProgress[k].trendPercentage, <<-5, 1>>)

\* The same statement on the entries of the render pass
Aux_C21_RenderPass ==
    \A k \in 1..Len(budgetProgress) :
        LET trend == budgetProgress[k].trendPercentage
            direction == budgetProgress[k].trendDirection
        IN  /\ (direction = "increasing") = (trend[1] > 5 * trend[2])
            /\ (direction = "decreasing") = (trend[1] < -5 * trend[2])
            /\ direction \in {"increasing", "decreasing", "stable"}

\* The absolute value of a finite number, as a pair of naturals
Magnitude(x) == <<IF x[1] < 0 THEN -x[1] ELSE x[1], x[2]>>

\* The BudgetProgress entries whose |trendPercentage| exceeds 15
ChangingEntries ==
    {k \in 1..Len(budgetProgress) :
        Magnitude(budgetProgress[k].trendPercentage)[1] >
            15 * Magnitude(budgetProgress[k].trendPercentage)[2]}

\* Entry k has the largest |trendPercentage| of the entries in `among`
LargestTrend(k, among) ==
    \A j \in among :
        Magnitude(budgetProgress[k].trendPercentage)[1]
                * Magnitude(budgetProgress[j].trendPercentage)[2]
            >= Magnitude(budgetProgress[j].trendPercentage)[1]
                * Magnitude(budgetProgress[k].trendPercentage)[2]

\* C22: the trend-change alert names the category with the largest absolute
\* trendPercentage among the BudgetProgress categories whose |trendPercentage|
\* exceeds 15, and is shown only when such a category exists and is not the
\* category of the over-pace warning.
Cex_C22 ==
    pc = "done" =>
        \A c \in 1..Len(insights) :
            insights[c].kind = "trendChange" =>
                /\ \E k \in ChangingEntries :
                      /\ budgetProgress[k].name = insights[c].name
                      /\ LargestTrend(k, ChangingEntries)
                /\ \A w \in 1..Len(insights) :
                      insights[w].kind = "overPace" => insights[w].name # insights[c].name

\* What the card does name: the first entry, in BudgetProgress order (largest
\* current-month spend first), whose |trendPercentage| exceeds 15
Aux_C22_FirstChanging ==
    pc = "done" =>
        \A c \in 1..Len(insights) :
            insights[c].kind = "trendChange" =>
                \E k \in ChangingEntries :
                    /\ budgetProgress[k].name = insights[c].name
                    /\ \A j \in ChangingEntries : k <= j

\* An alert for a category whose trend is not the largest one
Reach_C22_NotLargest ==
    /\ pc = "done"
    /\ \E c \in 1..Len(insights) :
          /\ insights[c].kind = "trendChange"
          /\ \E k \in ChangingEntries :
                /\ budgetProgress[k].name = insights[c].name
                /\ ~LargestTrend(k, ChangingEntries)

\* The BudgetProgress entries that are over pace
OverPaceEntries == {k \in 1..Len(budgetProgress) : budgetProgress[k].isOverPace}

\* The number x is spent / expected * 100 - adaptiveBudget of the entry
IsOverageOf(x, entry) ==
    LET s == entry.spent
        e == entry.expectedSpendingPercentage
        a == entry.adaptiveBudget
    IN  /\ x[2] > 0 /\ s[2] > 0 /\ e[2] > 0 /\ a[2] > 0 /\ e[1] > 0
        /\ (x[1] * a[2] + a[1] * x[2]) * s[2] * e[1] = 100 * s[1] * e[2] * x[2] * a[2]

\* C23: the over-pace warning card is shown exactly when some BudgetProgress
\* entry has isOverPace; it names the over-pace entry with the highest
\* current-month spend, and its projected month-end overage is
\* spent / expectedSpendingPercentage * 100 - adaptiveBudget of that entry.
Thm_C23 ==
    (pc = "done" /\ monthlyMetrics # <<>> /\ Len(budgetProgress) > 0) =>
        /\ (OverPaceEntries # {}) = (\E c \in 1..Len(insights) : insights[c].kind = "overPace")
        /\ \A c \in 1..Len(insights) :
              insights[c].kind = "overPace" =>
                  \E k \in OverPaceEntries :
                      /\ budgetProgress[k].name = insights[c].name
                      /\ \A j \in OverPaceEntries :
                            NGe(budgetProgress[k].spent, budgetProgress[j].spent)
                      /\ IsOverageOf(insights[c].overage, budgetProgress[k])

\* A warning that names the second entry: the first one, which spent more,
\* is not over pace
Wit_C23 ==
    /\ pc = "done"
    /\ OverPaceEntries = {2}
    /\ NGt(budgetProgress[1].spent, budgetProgress[2].spent)
    /\ \E c \in 1..Len(insights) :
          /\ insights[c].kind = "overPace"
          /\ insights[c].name = budgetProgress[2].name
          /\ NGt(insights[c].overage, <<0, 1>>)

\* A warning with two entries over pace: it names the one that spent more
Reach_C23_TwoOverPace ==
    /\ pc = "done"
    /\ {1, 2} \subseteq OverPaceEntries
    /\ NGt(budgetProgress[1].spent, budgetProgress[2].spent)
    /\ \E c \in 1..Len(insights) :
          insights[c].kind = "overPace" /\ insights[c].name = budgetProgress[1].name

\* Cards without a warning: no entry is over pace
Reach_C23_NoWarning ==
    /\ pc = "done"
    /\ Len(insights) > 0
    /\ OverPaceEntries = {}
    /\ \A c \in 1..Len(insights) : insights[c].kind # "overPace"

\* The BudgetProgress entries that are under pace
UnderPaceEntries == {k \in 1..Len(budgetProgress) : budgetProgress[k].isUnderPace}

\* The rule of the recommendation by the priority order of claim C24
RuleByPriority ==
    IF OverPaceEntries # {} THEN "overBudget"
    ELSE IF \E k \in ChangingEntries : budgetProgress[k].trendDirection = "increasing"
      THEN "increasing"
    ELSE IF \E k \in ChangingEntries : budgetProgress[k].trendDirection = "decreasing"
      THEN "decreasing"
    ELSE IF monthlyMetrics[1].savingsPercentage[1] < 15 * monthlyMetrics[1].savingsPercentage[2]
      THEN "lowSavings"
    ELSE IF UnderPaceEntries # {} THEN "underBudget"
    ELSE "wellAligned"

\* C24: whenever insights are produced, exactly one adaptive-budget
\* recommendation is shown, chosen by the first condition that holds in this
\* order: (1) some category is over pace; (2) a category with
\* |trendPercentage| > 15 has an increasing trend; (3) such a category has a
\* decreasing trend; (4) savingsPercentage < 15; (5) some category is under
\* pace; (6) otherwise the well-aligned message.  A lower-priority message is
\* never shown while a higher-priority condition holds.
Cex_C24 ==
    (pc = "done" /\ Len(insights) > 0) =>
        /\ CardsOfKind("recommendation") = 1
        /\ \A c \in 1..Len(insights) :
              insights[c].kind = "recommendation" => insights[c].rule = RuleByPriority

\* What the card does: conditions (2) and (3) look at the first entry with
\* |trendPercentage| > 15 only
Aux_C24_FirstChanging ==
    (pc = "done" /\ Len(insights) > 0) =>
        /\ CardsOfKind("recommendation") = 1
        /\ \A c \in 1..Len(insights) :
              insights[c].kind = "recommendation" =>
                  insights[c].rule =
                      IF OverPaceEntries # {} THEN "overBudget"
                      ELSE IF ChangingEntries # {}
                        THEN LET first == CHOOSE k \in ChangingEntries :
                                              \A j \in ChangingEntries : k <= j
                             IN  budgetProgress[first].trendDirection
                      ELSE IF monthlyMetrics[1].savingsPercentage[1]
                                  < 15 * monthlyMetrics[1].savingsPercentage[2]
                        THEN "lowSavings"
                      ELSE IF UnderPaceEntries # {} THEN "underBudget"
                      ELSE "wellAligned"

\* The card with the given rule is shown
RuleShown(rule) ==
    /\ pc = "done"
    /\ \E c \in 1..Len(insights) :
          insights[c].kind = "recommendation" /\ insights[c].rule = rule

Reach_C24_OverBudget == RuleShown("overBudget")

Reach_C24_Increasing == RuleShown("increasing")

Reach_C24_Decreasing == RuleShown("decreasing")

Reach_C24_LowSavings == RuleShown("lowSavings")

Reach_C24_UnderBudget == RuleShown("underBudget")

Reach_C24_WellAligned == RuleShown("wellAligned")

\* The sum of adaptiveBudget over the first k BudgetProgress entries
RECURSIVE AdaptiveBudgetSum(_)
AdaptiveBudgetSum(k) ==
    IF k = 0 THEN <<0, 1>>
    ELSE NAdd(AdaptiveBudgetSum(k - 1), budgetProgress[k].adaptiveBudget)

\* C25: the projection computes projectedAnnualSpend = 12 * (the sum of
\* adaptiveBudget over the at most 3 BudgetProgress entries),
\* projectedAnnualIncome = 12 * (the current-month income),
\* projectedAnnualSavings = projectedAnnualIncome - projectedAnnualSpend, which
\* may be negative, and projectedSavingsRate =
\* projectedAnnualSavings / projectedAnnualIncome * 100: a finite number with
\* an income above 0, the result of a division by 0 without.
Thm_C25 ==
    (pc = "done" /\ Len(insights) > 0) =>
        /\ Len(budgetProgress) <= 3
        /\ CardsOfKind("projection") = 1
        /\ \A c \in 1..Len(insights) :
              insights[c].kind = "projection" =>
                  LET card == insights[c]
                      total == AdaptiveBudgetSum(Len(budgetProgress))
                      income == monthlyMetrics[1].income
                  IN  /\ card.projectedAnnualSpend[2] > 0 /\ total[2] > 0
                      /\ card.projectedAnnualSpend[1] * total[2]
                            = 12 * total[1] * card.projectedAnnualSpend[2]
                      /\ card.projectedAnnualIncome = <<12 * income[1], 1>>
                      /\ card.projectedAnnualSavings =
                             NSub(card.projectedAnnualIncome, card.projectedAnnualSpend)
                      /\ IF income[1] > 0
                           THEN IsPercentOfNumber(card.projectedSavingsRate,
                                    card.projectedAnnualSavings, card.projectedAnnualIncome)
                           ELSE card.projectedSavingsRate[2] = 0

\* A projection over three entries with an income above 0 and negative savings
Wit_C25 ==
    /\ pc = "done"
    /\ Len(budgetProgress) = 3
    /\ \E c \in 1..Len(insights) :
          /\ insights[c].kind = "projection"
          /\ NGt(insights[c].projectedAnnualIncome, <<0, 1>>)
          /\ NLt(insights[c].projectedAnnualSavings, <<0, 1>>)
          /\ NLt(insights[c].projectedSavingsRate, <<0, 1>>)
          /\ insights[c].projectedSavingsRate[2] > 0

\* A projection with positive savings
Reach_C25_Saving ==
    /\ pc = "done"
    /\ \E c \in 1..Len(insights) :
          /\ insights[c].kind = "projection"
          /\ NGt(insights[c].projectedAnnualSavings, <<0, 1>>)
          /\ NGt(insights[c].projectedSavingsRate, <<0, 1>>)

\* C26: every category calculateCategorySpending produces has
\* transactionCount >= 1, totalSpent > 0, historicalAvgSpend > 0 and so
\* adaptiveBudget > 0; hence in every BudgetProgress entry budget equals
\* adaptiveBudget and spentPercentage equals adaptivePercentage, and the
\* fallback table is never the source of a chosen budget.
Thm_C26 ==
    /\ \A run \in AggregateRuns :
          \A i \in 1..Len(run[1]) :
              /\ run[1][i].transactionCount >= 1
              /\ NGt(run[1][i].totalSpent, <<0, 1>>)
              /\ NGt(run[1][i].historicalAvgSpend, <<0, 1>>)
              /\ NGt(run[1][i].adaptiveBudget, <<0, 1>>)
    /\ pc = "done" =>
          \A k \in 1..Len(budgetProgress) :
              /\ NGt(budgetProgress[k].adaptiveBudget, <<0, 1>>)
              /\ budgetProgress[k].budget = budgetProgress[k].adaptiveBudget
              /\ budgetProgress[k].spentPercentage = budgetProgress[k].adaptivePercentage
              /\ \E i \in 1..Len(categories) :
                    /\ categories[i].name = budgetProgress[k].name
                    /\ categories[i].adaptiveBudget = budgetProgress[k].budget

\* Entries for a category of the fallback table and for one outside it, each
\* with a budget that is its adaptive budget and not the table's value; the
\* aggregates hold a category with nothing recent
Wit_C26 ==
    /\ pc = "done"
    /\ \E k \in 1..Len(budgetProgress) :
          /\ budgetProgress[k].name = "Travel"
          /\ budgetProgress[k].budget # <<500, 1>>
          /\ budgetProgress[k].budget = budgetProgress[k].adaptiveBudget
    /\ \E k \in 1..Len(budgetProgress) : budgetProgress[k].name = "Uncategorized"
    /\ \E i \in 1..Len(categories) :
          /\ categories[i].recentTrendSpend = <<0, 1>>
          /\ NGt(categories[i].adaptiveBudget, <<0, 1>>)

\* The sum of currentMonthSpent over the first k of the categories
RECURSIVE CurrentMonthSpentSum(_, _)
CurrentMonthSpentSum(cats, k) ==
    IF k = 0 THEN <<0, 1>>
    ELSE NAdd(CurrentMonthSpentSum(cats, k - 1), cats[k].currentMonthSpent)

\* C27: for the same transaction list and the same `now`, the sum of
\* currentMonthSpent over all categories calculateCategorySpending returns
\* equals the expenses of calculateMonthlyMetrics, and every category has
\* currentMonthSpent <= totalSpent.
Thm_C27 ==
    \A run \in AggregateRuns :
        /\ \A i \in 1..Len(run[1]) :
              NLe(run[1][i].currentMonthSpent, run[1][i].totalSpent)
        /\ (nowMetrics # <<>> /\ monthlyMetrics # <<>> /\ nowMetrics[1] = run[2]) =>
              CurrentMonthSpentSum(run[1], Len(run[1])) = monthlyMetrics[1].expenses

\* Metrics and aggregates of the same `now`: three categories share the
\* month's expenses, one of them with older expenses besides
Wit_C27 ==
    /\ nowMetrics # <<>>
    /\ monthlyMetrics # <<>>
    /\ \E run \in AggregateRuns :
          /\ nowMetrics[1] = run[2]
          /\ Len(run[1]) = 3
          /\ \A i \in 1..3 : NGt(run[1][i].currentMonthSpent, <<0, 1>>)
          /\ \E i \in 1..3 : NLt(run[1][i].currentMonthSpent, run[1][i].totalSpent)
          /\ CurrentMonthSpentSum(run[1], 3) = monthlyMetrics[1].expenses

\* Readings of different months: the two sums differ
Reach_C27_OtherMonth ==
    /\ nowMetrics # <<>>
    /\ monthlyMetrics # <<>>
    /\ \E run \in AggregateRuns :
          /\ nowMetrics[1].m # run[2].m
          /\ CurrentMonthSpentSum(run[1], Len(run[1])) # monthlyMetrics[1].expenses

\* C28: for every category with monthsSpan <= 3, recentTrendSpend <=
\* historicalAvgSpend and so trendPercentage <= 0; a category can have
\* trendDirection "increasing" only if its oldest expense is at least 4
\* calendar months before `now`; in general
\* trendPercentage <= (monthsSpan / min(3, monthsSpan) - 1) * 100.
Thm_C28 ==
    /\ \A run \in AggregateRuns :
          \A i \in 1..Len(run[1]) :
              LET span == ClampedSpan(run[1][i].name, run[2])
                  months == IF span < 3 THEN span ELSE 3
                  trend == run[1][i].trendPercentage
              IN  /\ trend[2] > 0
                  /\ span <= 3 =>
                        /\ NLe(run[1][i].recentTrendSpend, run[1][i].historicalAvgSpend)
                        /\ trend[1] <= 0
                  /\ trend[1] * months <= 100 * (span - months) * trend[2]
                  /\ trend[1] > 5 * trend[2] => MonthDistance(run[1][i].name, run[2]) >= 4
    /\ pc = "done" =>
          \A k \in 1..Len(budgetProgress) :
              budgetProgress[k].trendDirection = "increasing" =>
                  MonthDistance(budgetProgress[k].name, nowCategories[1]) >= 4

\* An increasing entry, whose oldest expense is five months old, next to
\* categories of one and of two months with trends of 0 and below 0
Wit_C28 ==
    /\ pc = "done"
    /\ \E k \in 1..Len(budgetProgress) :
          /\ budgetProgress[k].trendDirection = "increasing"
          /\ MonthDistance(budgetProgress[k].name, nowCategories[1]) = 5
    /\ \E i \in 1..Len(categories) :
          /\ ClampedSpan(categories[i].name, nowCategories[1]) = 1
          /\ categories[i].trendPercentage = <<0, 1>>
    /\ \E i \in 1..Len(categories) :
          /\ ClampedSpan(categories[i].name, nowCategories[1]) = 2
          /\ NLt(categories[i].trendPercentage, <<0, 1>>)

\* C29: whenever the over-pace warning card is shown, the overage it reports is
\* strictly positive and more than 10% of the named entry's adaptiveBudget; the
\* expectedSpendingPercentage of every entry is above 0 and at most 100.
Thm_C29 ==
    pc = "done" =>
        /\ \A c \in 1..Len(insights) :
              insights[c].kind = "overPace" =>
                  \A k \in 1..Len(budgetProgress) :
                      budgetProgress[k].name = insights[c].name =>
                          LET x == insights[c].overage
                              a == budgetProgress[k].adaptiveBudget
                          IN  /\ x[2] > 0 /\ a[2] > 0
                              /\ x[1] > 0
                              /\ 10 * x[1] * a[2] > a[1] * x[2]
        /\ \A k \in 1..Len(budgetProgress) :
              LET e == budgetProgress[k].expectedSpendingPercentage
              IN  e[2] > 0 /\ e[1] > 0 /\ e[1] <= 100 * e[2]

\* A warning on the last day of a month, where the expected percentage is 100,
\* whose overage is below the adaptive budget itself
Wit_C29 ==
    /\ pc = "done"
    /\ \E c \in 1..Len(insights) :
          /\ insights[c].kind = "overPace"
          /\ \E k \in 1..Len(budgetProgress) :
                /\ budgetProgress[k].name = insights[c].name
                /\ budgetProgress[k].expectedSpendingPercentage = <<100, 1>>
                /\ insights[c].overage[1] * budgetProgress[k].adaptiveBudget[2]
                      < budgetProgress[k].adaptiveBudget[1] * insights[c].overage[2]

\* A warning early in a month: the expected percentage is below 100
Reach_C29_EarlyInMonth ==
    /\ pc = "done"
    /\ \E c \in 1..Len(insights) :
          /\ insights[c].kind = "overPace"
          /\ \E k \in 1..Len(budgetProgress) :
                /\ budgetProgress[k].name = insights[c].name
                /\ NLt(budgetProgress[k].expectedSpendingPercentage, <<100, 1>>)

\* The request came back with an OK status and a body json() could parse
Succeeded(response) ==
    response # <<>> /\ response[1].kind = "resolved" /\ response[1].ok /\ response[1].body # <<>>

\* C30: in handlePlaidSuccess, if the token exchange or the transaction fetch
\* fails (non-OK response or thrown error), the flow ends with error set to a
\* non-null message, isLoading false, and transactions and accounts as they
\* were; transactions and accounts are replaced, together, only by the step
\* that ends a flow both of whose requests succeeded, and by that response's data.
Thm_C30 ==
    [][LET running == plaidFlow.pc \in {"exchange", "transactions"}
           ends == running /\ plaidFlow'.pc = "ended"
           bothSucceeded == /\ Succeeded(plaidFlow'.exchangeResponse)
                            /\ Succeeded(plaidFlow'.transactionsResponse)
       IN  /\ (ends /\ ~bothSucceeded) =>
                 /\ error' # <<>>
                 /\ error'[1] # ""
                 /\ isLoading' = FALSE
                 /\ transactions' = transactions
                 /\ accounts' = accounts
           /\ (transactions' # transactions \/ accounts' # accounts) =>
                 /\ ends
                 /\ bothSucceeded
                 /\ <<transactions'>> = plaidFlow'.transactionsResponse[1].body[1].transactions
                 /\ <<accounts'>> = plaidFlow'.transactionsResponse[1].body[1].accounts
    ]_vars

\* A flow whose token exchange succeeded and whose transaction fetch came back
\* non-OK without details has ended: the error is the default message and the
\* transactions and accounts of an earlier flow are still there
Wit_C30 ==
    /\ plaidFlow.pc = "ended"
    /\ Succeeded(plaidFlow.exchangeResponse)
    /\ plaidFlow.transactionsResponse # <<>>
    /\ plaidFlow.transactionsResponse[1].kind = "resolved"
    /\ ~plaidFlow.transactionsResponse[1].ok
    /\ error = <<"Failed to fetch transactions">>
    /\ isLoading = FALSE
    /\ transactions = Statement
    /\ Len(accounts) = 1

\* A flow whose token exchange was rejected has ended
Reach_C30_ExchangeRejected ==
    /\ plaidFlow.pc = "ended"
    /\ plaidFlow.exchangeResponse # <<>>
    /\ plaidFlow.exchangeResponse[1].kind = "rejected"
    /\ plaidFlow.transactionsResponse = <<>>
    /\ error = <<"Failed to fetch">>
    /\ isLoading = FALSE

\* A flow both of whose requests succeeded has ended: no error, new data
Reach_C30_Replaced ==
    /\ plaidFlow.pc = "ended"
    /\ Succeeded(plaidFlow.exchangeResponse)
    /\ Succeeded(plaidFlow.transactionsResponse)
    /\ error = <<>>
    /\ isLoading = FALSE
    /\ transactions = SubSeq(Ledger, 1, 3)

\* Between the two requests the flow is loading and has touched nothing
Reach_C30_Loading ==
    /\ plaidFlow.pc = "transactions"
    /\ isLoading = TRUE
    /\ error = <<>>
    /\ transactions = Statement
=============================================================================
